---- MODULE Spec2Model ----
(***************************************************************************)
(* Model of the lead-processing core: the form normaliser, the phone       *)
(* formatter, the pre-call and post-call crews, and the orchestrator that  *)
(* drives them over the inquiry table.                                     *)
(*                                                                         *)
(* Python's Optional[T] is modelled as a sequence of length at most one:   *)
(* None is <<>> and a present value v is <<v>>.  A Python str is a         *)
(* sequence of one-character strings where its characters matter (phone    *)
(* numbers) and a TLA+ string where only its identity matters.             *)
(***************************************************************************)
EXTENDS Integers, Sequences, FiniteSets, TLC

VARIABLES settings, phoneIn, phoneOut, rawIn, parseOut, preIn, preOut,
          postIn, postOut, db, tasks, last

vars == <<settings, phoneIn, phoneOut, rawIn, parseOut, preIn, preOut,
          postIn, postOut, db, tasks, last>>

None == <<>>
Some(v) == <<v>>
IsNone(o) == o = <<>>
IsSome(o) == o # <<>>
Val(o) == o[1]

\* The inquiry table holds at most MaxInquiries rows, with the ids the
\* table would generate.
MaxInquiries == 1
IdOf(n) == "inq_" \o ToString(n)
InquiryIds == { IdOf(n) : n \in 1..MaxInquiries }

\* The table before any submission: no row under any id.
EmptyDb == [i \in InquiryIds |-> None]

\* What the last handler run did: its name and inputs, the HTTP response
\* it gave (None for a background task), the collaborator calls it made.
Op(op, inquiry_id, event, call_id, response, calls) ==
    [op |-> op, inquiry_id |-> inquiry_id, event |-> event,
     call_id |-> call_id, response |-> response, calls |-> calls]

NoOp == Op("none", None, None, None, None, <<>>)

\* ------------------------------------------------------------------------
\* Settings: the two routing thresholds, read from the environment
\* ------------------------------------------------------------------------

HOT_THRESHOLD_DEFAULT == 70
WARM_THRESHOLD_DEFAULT == 40

\* Threshold pairs the process may be started with (HOT_THRESHOLD,
\* WARM_THRESHOLD come from the environment; the defaults are the first).
DefaultSettings ==
    [HOT_THRESHOLD |-> HOT_THRESHOLD_DEFAULT, WARM_THRESHOLD |-> WARM_THRESHOLD_DEFAULT]

ThresholdPairs ==
    { DefaultSettings,
      [HOT_THRESHOLD |-> 80, WARM_THRESHOLD |-> 50],
      [HOT_THRESHOLD |-> 60, WARM_THRESHOLD |-> 30] }

get_settings == settings

\* ------------------------------------------------------------------------
\* Phone formatting
\* ------------------------------------------------------------------------

Digits == {"0", "1", "2", "3", "4", "5", "6", "7", "8", "9"}

\* "".join(c for c in str(phone) if c.isdigit())
DigitsOf(s) == SelectSeq(s, LAMBDA c : c \in Digits)

\* digits[-10:]
Last10(d) == IF Len(d) <= 10 THEN d ELSE SubSeq(d, Len(d) - 9, Len(d))

\* Python truthiness of an Optional[str]: None and "" are falsy.
Truthy(o) == IsSome(o) /\ Val(o) # <<>>

\* src/core/config.py: returns None for an empty or short number.
core_format_phone_number(phone) ==
    IF ~Truthy(phone) THEN None
    ELSE LET digits == DigitsOf(Val(phone)) IN
         IF digits = <<>> THEN None
         ELSE IF Len(digits) = 10 THEN Some(<<"+", "1">> \o digits)
         ELSE IF Len(digits) = 11 /\ digits[1] = "1" THEN Some(<<"+">> \o digits)
         ELSE IF Len(digits) >= 10 THEN Some(<<"+", "1">> \o Last10(digits))
         ELSE None

\* src/config.py: returns "" for a falsy number and prefixes "+1" to a
\* short one.  digits holds digits only, so digits.startswith("+") is
\* never true.
format_phone_number(phone) ==
    IF ~Truthy(phone) THEN Some(<<>>)
    ELSE LET digits == DigitsOf(Val(phone)) IN
         IF Len(digits) = 10 THEN Some(<<"+", "1">> \o digits)
         ELSE IF Len(digits) = 11 /\ digits[1] = "1" THEN Some(<<"+">> \o digits)
         ELSE IF Len(digits) > 0 /\ digits[1] = "+" THEN Some(digits)
         ELSE IF Len(digits) >= 10 THEN Some(<<"+", "1">> \o Last10(digits))
         ELSE Some(<<"+", "1">> \o digits)

\* Outcomes of the POST to the voice API: a 201 with a call id, an error
\* status, or a transport failure.
ApiOutcomes == {"created", "error", "timeout"}
CallIds == {"call_a", "call_b"}

\* RetellService.create_call (src/integrations/retell.py): the request is
\* posted only for a truthy formatted number.
RetellService_create_call(to_number, api, call_id) ==
    LET formatted_number == core_format_phone_number(to_number) IN
    IF ~Truthy(formatted_number)
    THEN [formatted |-> formatted_number, posted |-> FALSE, call_id |-> None]
    ELSE [formatted |-> formatted_number, posted |-> TRUE,
          call_id |-> IF api = "created" THEN Some(call_id) ELSE None]

\* RetellCaller.create_call (src/tools/retell_caller.py).
RetellCaller_create_call(to_number, api, call_id) ==
    LET formatted_number == format_phone_number(to_number) IN
    IF ~Truthy(formatted_number)
    THEN [formatted |-> formatted_number, posted |-> FALSE, call_id |-> None]
    ELSE [formatted |-> formatted_number, posted |-> TRUE,
          call_id |-> IF api = "created" THEN Some(call_id) ELSE None]

MaxPhoneDigits == 12

\* Characters a submitted number is made of.
PhoneDigitChars == {"1", "5"}

DigitStrings == UNION { [1..n -> PhoneDigitChars] : n \in 0..MaxPhoneDigits }

\* A digit string as typed: bare, with a leading "+", or punctuated as
\* "(ddd) ddd-dddd...".
Punctuate(d) ==
    IF Len(d) < 7 THEN d
    ELSE <<"(">> \o SubSeq(d, 1, 3) \o <<")", " ">> \o SubSeq(d, 4, 6)
         \o <<"-">> \o SubSeq(d, 7, Len(d))

PhoneInputs ==
    {None} \cup { Some(d) : d \in DigitStrings }
           \cup { Some(<<"+">> \o d) : d \in DigitStrings }
           \cup { Some(Punctuate(d)) : d \in DigitStrings }

PhoneInit ==
    /\ settings = DefaultSettings
    /\ phoneIn \in PhoneInputs
    /\ phoneOut = None
    /\ rawIn = <<>>
    /\ parseOut = None
    /\ preIn = None
    /\ preOut = None
    /\ postIn = None
    /\ postOut = None
    /\ db = EmptyDb
    /\ tasks = <<>>
    /\ last = NoOp

\* A call to RetellCaller.create_call with the number under test.
CreateCallLegacy ==
    /\ phoneOut = None
    /\ \E api \in ApiOutcomes :
         phoneOut' = Some([impl |-> "src.config"]
                          @@ RetellCaller_create_call(phoneIn, api, "call_a"))
    /\ UNCHANGED <<settings, phoneIn, rawIn, parseOut, preIn, preOut, postIn, postOut, db, tasks, last>>

\* A call to RetellService.create_call with the number under test.
CreateCallCore ==
    /\ phoneOut = None
    /\ \E api \in ApiOutcomes :
         phoneOut' = Some([impl |-> "src.core.config"]
                          @@ RetellService_create_call(phoneIn, api, "call_a"))
    /\ UNCHANGED <<settings, phoneIn, rawIn, parseOut, preIn, preOut, postIn, postOut, db, tasks, last>>

PhoneNext == CreateCallLegacy \/ CreateCallCore

SpecPhone == PhoneInit /\ [][PhoneNext]_vars

\* C10 (as stated): whichever create_call formats the number, 10 digits, or
\* 11 digits with a leading 1, give "+1" and the ten national digits, and
\* fewer than 10 digits with no leading "+" (the empty string and None
\* included) give None and no request to the voice API.
C10_PhoneFormatAsStated ==
    IsSome(phoneOut) =>
        LET r == Val(phoneOut)
            digits == IF IsNone(phoneIn) THEN <<>> ELSE DigitsOf(Val(phoneIn))
            plus == IsSome(phoneIn) /\ Val(phoneIn) # <<>> /\ Val(phoneIn)[1] = "+"
        IN /\ (Len(digits) = 10 \/ (Len(digits) = 11 /\ digits[1] = "1"))
                => r.formatted = Some(<<"+", "1">> \o Last10(digits))
           /\ (Len(digits) < 10 /\ ~plus)
                => (r.formatted = None /\ ~r.posted)

\* ------------------------------------------------------------------------
\* Form normalisation
\* ------------------------------------------------------------------------

\* A JSON value of the raw payload: a string (items holds it), null (no
\* item) or an array of strings (isList).
Str(s) == [isList |-> FALSE, items |-> <<s>>]
Null == [isList |-> FALSE, items |-> <<>>]
List(l) == [isList |-> TRUE, items |-> l]

\* One key/value pair of the payload; a payload is the sequence of its
\* pairs in the order of the JSON object.
Pair(k, v) == [key |-> k, value |-> v]

Q_GOAL == "What is your primary goal for implementing a custom AI system?"
Q_CHALLENGES == "Please briefly describe the key business processes or challenges you are looking to address with AI."
Q_DATA == "Which of the following data sources are most relevant to your potential AI system?"
Q_CRITICALITY == "On a scale of 1 to 5, how critical is it for the AI system to operate entirely within your existing infrastructure?"
Q_TIMELINE == "What is your estimated timeline for launching a custom AI solution?"
Q_PREFERRED == "What date and time would you prefer for a follow-up discussion?"

GOOGLE_FORM_FIELD_MAPPING ==
    [k \in {"Name ", "Name", "Email", "Phone Number ", "Phone Number",
            "Website ", "Website", Q_GOAL, Q_CHALLENGES, Q_DATA,
            Q_CRITICALITY, Q_TIMELINE, Q_PREFERRED,
            "formId", "submittedAt", "timestamp"} |->
        CASE k \in {"Name ", "Name"} -> "company_name"
          [] k = "Email" -> "email"
          [] k \in {"Phone Number ", "Phone Number"} -> "phone"
          [] k \in {"Website ", "Website"} -> "website"
          [] k = Q_GOAL -> "primary_goal"
          [] k = Q_CHALLENGES -> "business_challenges"
          [] k = Q_DATA -> "data_sources"
          [] k = Q_CRITICALITY -> "infrastructure_criticality"
          [] k = Q_TIMELINE -> "timeline"
          [] k = Q_PREFERRED -> "preferred_datetime"
          [] k = "formId" -> "form_id"
          [] OTHER -> "submitted_at"]

\* str.strip() on the keys that occur in payloads.
Strip(k) ==
    CASE k = "Email " -> "Email"
      [] k = " Timeline" -> "Timeline"
      [] k = "Name " -> "Name"
      [] k = "Phone Number " -> "Phone Number"
      [] k = "Website " -> "Website"
      [] OTHER -> k

\* str.lower().replace(" ", "_") on the stripped keys that have no mapping.
Slug(k) ==
    CASE k = "Custom Field" -> "custom_field"
      [] k = "Timeline" -> "timeline"
      [] OTHER -> k

RECURSIVE Join(_)
\* ", ".join(str(v) for v in value)
Join(l) ==
    IF Len(l) = 1 THEN l[1] ELSE l[1] \o ", " \o Join(Tail(l))

\* The value stored under the mapped key: an array collapses to its
\* comma-joined items, or to None when empty; null stays None.
MappedValue(v) ==
    IF v.items = <<>> THEN None ELSE Some(Join(v.items))

MappedKey(raw_key) ==
    IF raw_key \in DOMAIN GOOGLE_FORM_FIELD_MAPPING
    THEN GOOGLE_FORM_FIELD_MAPPING[raw_key]
    ELSE IF Strip(raw_key) \in DOMAIN GOOGLE_FORM_FIELD_MAPPING
    THEN GOOGLE_FORM_FIELD_MAPPING[Strip(raw_key)]
    ELSE Slug(Strip(raw_key))

RECURSIVE MapFrom(_, _)
MapFrom(raw_data, result) ==
    IF raw_data = <<>> THEN result
    ELSE LET p == Head(raw_data) IN
         MapFrom(Tail(raw_data),
                 (MappedKey(p.key) :> MappedValue(p.value)) @@ result)

\* map_form_fields: a dict from mapped key to Optional[str]; a later pair
\* overwrites an earlier one with the same mapped key.
map_form_fields(raw_data) == MapFrom(raw_data, <<>>)

\* dict.get: None for a missing key.
Get(d, k) == IF k \in DOMAIN d THEN d[k] ELSE None

\* EmailStr: None for text that is no address, else the normalised address
\* (email-validator lower-cases the domain part).
EmailStr(s) ==
    CASE s = "a@acme.com" -> Some("a@acme.com")
      [] s = "Bob@ACME.com" -> Some("Bob@acme.com")
      [] OTHER -> None

\* Lax int validation of a str: the integer it spells, None when it
\* spells none.
IntOfStr(s) ==
    CASE s = "0" -> Some(0)
      [] s = "1" -> Some(1)
      [] s = "2" -> Some(2)
      [] s = "3" -> Some(3)
      [] s = "4" -> Some(4)
      [] s = "5" -> Some(5)
      [] s = "6" -> Some(6)
      [] s = "-1" -> Some(0 - 1)
      [] OTHER -> None

\* ParsedLead(**mapped_data): company_name and email are required, email
\* is an EmailStr, infrastructure_criticality an Optional[int] with
\* ge=1, le=5; unknown keys are ignored.  A validation error raises.
ParsedLead(mapped_data) ==
    LET company_name == Get(mapped_data, "company_name")
        email == Get(mapped_data, "email")
        crit == Get(mapped_data, "infrastructure_criticality")
        critInt == IF IsNone(crit) THEN None ELSE IntOfStr(Val(crit))
        valid ==
            /\ IsSome(company_name)
            /\ IsSome(email) /\ IsSome(EmailStr(Val(email)))
            /\ IsSome(crit) => (IsSome(critInt) /\ Val(critInt) \in 1..5)
    IN IF ~valid THEN [raised |-> TRUE, lead |-> None]
       ELSE [raised |-> FALSE,
             lead |-> Some(
               [company_name |-> Val(company_name),
                email |-> Val(EmailStr(Val(email))),
                phone |-> Get(mapped_data, "phone"),
                website |-> Get(mapped_data, "website"),
                primary_goal |-> Get(mapped_data, "primary_goal"),
                business_challenges |-> Get(mapped_data, "business_challenges"),
                data_sources |-> Get(mapped_data, "data_sources"),
                infrastructure_criticality |-> critInt,
                timeline |-> Get(mapped_data, "timeline"),
                preferred_datetime |-> Get(mapped_data, "preferred_datetime"),
                raw_form_data |-> Get(mapped_data, "raw_form_data")])]

\* parse_form_submission without the raw payload stored on the model.
parse_form_submission_drops_raw(raw_data) ==
    ParsedLead(map_form_fields(raw_data))

\* LeadProcessor.parse_form_submission: the raw payload is stored under
\* raw_form_data before the model is built.
parse_form_submission(raw_data) ==
    LET mapped_data == ("raw_form_data" :> Some(raw_data)) @@ map_form_fields(raw_data)
    IN ParsedLead(mapped_data)

\* The pairs a payload may hold for each form field (<<>>: field missing).
NameOpts == { <<>>, <<Pair("Name ", Str("Acme"))>>, <<Pair("Name", Str("Acme"))>> }
EmailOpts == { <<>>, <<Pair("Email", Str("a@acme.com"))>>,
               <<Pair("Email", Str("Bob@ACME.com"))>>,
               <<Pair("Email", Str("not-an-email"))>> }
PhoneOpts == { <<>>, <<Pair("Phone Number ", Str("4155551234"))>> }
WebsiteOpts == { <<>>, <<Pair("Website ", Str("https://acme.com"))>> }
GoalOpts == { <<>>, <<Pair(Q_GOAL, Str("Automate support"))>> }
ChallengesOpts == { <<>>, <<Pair(Q_CHALLENGES, Str("Too many tickets"))>> }
DataOpts == { <<>>, <<Pair(Q_DATA, List(<<>>))>>, <<Pair(Q_DATA, List(<<"CRM">>))>>,
              <<Pair(Q_DATA, List(<<"CRM", "Tickets">>))>> }
CriticalityOpts == { <<>>, <<Pair(Q_CRITICALITY, Str("4"))>>,
                     <<Pair(Q_CRITICALITY, Str("1"))>>,
                     <<Pair(Q_CRITICALITY, Str("5"))>>,
                     <<Pair(Q_CRITICALITY, Str("6"))>>,
                     <<Pair(Q_CRITICALITY, Str("0"))>>,
                     <<Pair(Q_CRITICALITY, Str("-1"))>>,
                     <<Pair(Q_CRITICALITY, Str("high"))>> }
TimelineOpts == { <<>>, <<Pair(Q_TIMELINE, Str("this month"))>> }
PreferredOpts == { <<>>, <<Pair(Q_PREFERRED, Str("Tuesday 2pm"))>> }
CustomOpts == { <<>>, <<Pair("Custom Field", Str("x"))>> }

RawPayloads ==
    { n \o e \o p \o w \o g \o c \o d \o i \o t \o f \o u :
        n \in NameOpts, e \in EmailOpts, p \in PhoneOpts, w \in WebsiteOpts,
        g \in GoalOpts, c \in ChallengesOpts, d \in DataOpts,
        i \in CriticalityOpts, t \in TimelineOpts, f \in PreferredOpts,
        u \in CustomOpts }

ParseInit ==
    /\ settings = DefaultSettings
    /\ phoneIn = None
    /\ phoneOut = None
    /\ rawIn \in RawPayloads
    /\ parseOut = None
    /\ preIn = None
    /\ preOut = None
    /\ postIn = None
    /\ postOut = None
    /\ db = EmptyDb
    /\ tasks = <<>>
    /\ last = NoOp

\* A call of parse_form_submission on the payload under test.
ParseFormSubmission ==
    /\ parseOut = None
    /\ parseOut' = Some(parse_form_submission(rawIn))
    /\ UNCHANGED <<settings, phoneIn, phoneOut, rawIn, preIn, preOut, postIn, postOut, db, tasks, last>>

ParseNext == ParseFormSubmission

SpecParse == ParseInit /\ [][ParseNext]_vars

\* The raw value a payload gives under a key (None when the key is missing
\* or null; an array reads as its joined items).
RawField(raw_data, k) ==
    LET hits == SelectSeq(raw_data, LAMBDA p : p.key = k) IN
    IF hits = <<>> THEN None ELSE MappedValue(hits[Len(hits)].value)

HasWellFormedEmail(raw_data) ==
    IsSome(RawField(raw_data, "Email")) /\ IsSome(EmailStr(Val(RawField(raw_data, "Email"))))

\* The payload gives no criticality or a numeral from 1 to 5.
ValidCriticality(raw_data) ==
    LET c == RawField(raw_data, Q_CRITICALITY) IN
    IsNone(c) \/ (IsSome(IntOfStr(Val(c))) /\ Val(IntOfStr(Val(c))) \in 1..5)

HasCompanyName(raw_data) ==
    IsSome(RawField(raw_data, "Name ")) \/ IsSome(RawField(raw_data, "Name"))

TruthyStr(o) == IsSome(o) /\ Val(o) # ""

\* x or default, for an Optional[str]
OrStr(o, default) == IF TruthyStr(o) THEN Val(o) ELSE default

\* What one reasoning call (crew.kickoff and task.output) may do: return a
\* structured output, return none, or raise.
OutcomeKinds == {"ok", "no_output", "raise"}

\* Field bounds of LeadScoring (ge=0, le=25 per component, le=100 total).
MAX_COMPONENT_SCORE == 25
MAX_TOTAL_SCORE == 100

LeadScoringValid(sc) ==
    /\ sc.total_score \in 0..MAX_TOTAL_SCORE
    /\ sc.budget_score \in 0..MAX_COMPONENT_SCORE
    /\ sc.timeline_score \in 0..MAX_COMPONENT_SCORE
    /\ sc.fit_score \in 0..MAX_COMPONENT_SCORE
    /\ sc.engagement_score \in 0..MAX_COMPONENT_SCORE

\* research_confidence is held in hundredths (0.0 is 0, 1.0 is 100).
_get_fallback_research(lead) ==
    [company_summary |-> "Company: " \o lead.company_name \o ". Website: "
                         \o OrStr(lead.website, "Unknown"),
     industry |-> "Unknown",
     company_size_estimate |-> None,
     tech_stack |-> <<>>,
     recent_news |-> <<>>,
     pain_points |-> IF TruthyStr(lead.business_challenges)
                     THEN <<Val(lead.business_challenges)>> ELSE <<>>,
     ai_opportunities |-> IF TruthyStr(lead.primary_goal)
                          THEN <<Val(lead.primary_goal)>> ELSE <<>>,
     competitors |-> <<>>,
     research_confidence |-> 0]

FALLBACK_HOT == 70
FALLBACK_WARM == 40

_get_fallback_scoring(lead) ==
    LET crit == IF IsSome(lead.infrastructure_criticality)
                   /\ Val(lead.infrastructure_criticality) # 0
                THEN Val(lead.infrastructure_criticality) ELSE 3
        budget_score == crit * 5
        timeline_score == IF TruthyStr(lead.timeline) THEN 15 ELSE 8
        fit_score == IF TruthyStr(lead.primary_goal) THEN 15 ELSE 10
        engagement_score == IF TruthyStr(lead.business_challenges) THEN 15 ELSE 10
        total == budget_score + timeline_score + fit_score + engagement_score
        category == IF total >= FALLBACK_HOT THEN "hot"
                    ELSE IF total >= FALLBACK_WARM THEN "warm"
                    ELSE "nurture"
    IN [total_score |-> total,
        category |-> category,
        budget_score |-> budget_score,
        timeline_score |-> timeline_score,
        fit_score |-> fit_score,
        engagement_score |-> engagement_score,
        scoring_rationale |-> "Fallback scoring - AI scoring failed",
        priority_notes |-> Some("Manual review recommended")]

_get_fallback_personalization(lead) ==
    [custom_opener |-> "Thank you for your interest in Nodari AI, "
                       \o lead.company_name \o ".",
     pain_point_reference |-> "You mentioned interest in "
                       \o OrStr(lead.primary_goal, "AI solutions") \o ".",
     value_proposition |->
        "We help companies implement custom AI solutions that drive real results.",
     talking_points |-> <<"Understand their specific use case",
                          "Discuss timeline and priorities",
                          "Identify decision makers">>,
     suggested_questions |-> <<"What's driving your interest in AI?",
                               "What would success look like?",
                               "Who else is involved in this decision?">>,
     objection_handlers |->
        ("Not ready yet" :> "No commitment needed - let's explore what's possible."
         @@ "Budget is tight" :> "We have options for different investment levels."),
     call_strategy |-> "Focus on discovery and understanding their needs."]

\* PreCallResult(success=True)
NewPreCallResult ==
    [success |-> TRUE, research |-> None, scoring |-> None,
     personalization |-> None, errors |-> <<>>]

\* A stage returns its value (ret), the result object as it left it, and
\* whether an exception escaped it.  An exception escapes only from the
\* except block, when building the fallback fails validation.

_run_research(lead, result, out) ==
    IF out.kind = "ok"
    THEN [ret |-> out.value, raised |-> FALSE,
          result |-> [result EXCEPT !.research = Some(out.value)]]
    ELSE [ret |-> _get_fallback_research(lead), raised |-> FALSE,
          result |-> [result EXCEPT !.errors = Append(@,
                        IF out.kind = "no_output"
                        THEN "Research returned no output"
                        ELSE "Research failed: " \o out.message)]]

\* _run_scoring that returns the fallback without recording the degradation.
_run_scoring_silent(lead, research, result, out) ==
    [ret |-> IF out.kind = "ok" THEN out.value ELSE _get_fallback_scoring(lead),
     raised |-> FALSE,
     result |-> IF out.kind = "ok"
                THEN [result EXCEPT !.scoring = Some(out.value)]
                ELSE result]

_run_scoring(lead, research, result, out) ==
    IF out.kind = "ok"
    THEN [ret |-> out.value, raised |-> FALSE,
          result |-> [result EXCEPT !.scoring = Some(out.value)]]
    ELSE [ret |-> _get_fallback_scoring(lead),
          raised |-> ~LeadScoringValid(_get_fallback_scoring(lead)),
          result |-> [result EXCEPT !.errors = Append(@,
                        IF out.kind = "no_output"
                        THEN "Scoring returned no output"
                        ELSE "Scoring failed: " \o out.message)]]

_run_personalization(lead, research, scoring, result, out) ==
    IF out.kind = "ok"
    THEN [ret |-> out.value, raised |-> FALSE,
          result |-> [result EXCEPT !.personalization = Some(out.value)]]
    ELSE [ret |-> _get_fallback_personalization(lead), raised |-> FALSE,
          result |-> [result EXCEPT !.errors = Append(@,
                        IF out.kind = "no_output"
                        THEN "Personalization returned no output"
                        ELSE "Personalization failed: " \o out.message)]]

\* One reasoning call as the crew makes it: the agent asked and the
\* prior-stage values put into its task.
AgentCall(agent, research, scoring) ==
    [agent |-> agent, research |-> research, scoring |-> scoring]

\* PreCallCrew.run that returns after a degraded research stage without
\* making the scoring and personalization calls.
PreCallCrew_run_stops_on_fallback(lead, outs) ==
    LET r1 == _run_research(lead, NewPreCallResult, outs.research)
        r2 == _run_scoring(lead, r1.ret, r1.result, outs.scoring)
        r3 == _run_personalization(lead, r1.ret, r2.ret, r2.result,
                                   outs.personalization)
        c1 == <<AgentCall("research", None, None)>>
        c2 == Append(c1, AgentCall("scoring", Some(r1.ret), None))
        c3 == Append(c2, AgentCall("personalization", Some(r1.ret), Some(r2.ret)))
    IN IF r1.raised THEN [raised |-> TRUE, result |-> None, calls |-> c1]
       ELSE IF outs.research.kind # "ok"
       THEN [raised |-> FALSE, result |-> Some(r1.result), calls |-> c1]
       ELSE IF r2.raised THEN [raised |-> TRUE, result |-> None, calls |-> c2]
       ELSE IF r3.raised THEN [raised |-> TRUE, result |-> None, calls |-> c3]
       ELSE [raised |-> FALSE, result |-> Some(r3.result), calls |-> c3]

\* PreCallCrew.run.  outs gives the outcome of each stage's reasoning call.
\* Returns the PreCallResult (None when an exception escaped) and the
\* reasoning calls made, in order.
PreCallCrew_run(lead, outs) ==
    LET r1 == _run_research(lead, NewPreCallResult, outs.research)
        r2 == _run_scoring(lead, r1.ret, r1.result, outs.scoring)
        r3 == _run_personalization(lead, r1.ret, r2.ret, r2.result,
                                   outs.personalization)
        c1 == <<AgentCall("research", None, None)>>
        c2 == Append(c1, AgentCall("scoring", Some(r1.ret), None))
        c3 == Append(c2, AgentCall("personalization", Some(r1.ret), Some(r2.ret)))
    IN IF r1.raised THEN [raised |-> TRUE, result |-> None, calls |-> c1]
       ELSE IF r2.raised THEN [raised |-> TRUE, result |-> None, calls |-> c2]
       ELSE IF r3.raised THEN [raised |-> TRUE, result |-> None, calls |-> c3]
       ELSE [raised |-> FALSE, result |-> Some(r3.result), calls |-> c3]

\* Structured outputs a reasoning call may return.
RealResearch ==
    [company_summary |-> "Acme builds widgets",
     industry |-> "Manufacturing",
     company_size_estimate |-> Some("50-200"),
     tech_stack |-> <<"SAP">>,
     recent_news |-> <<>>,
     pain_points |-> <<"Slow support">>,
     ai_opportunities |-> <<"Ticket triage">>,
     competitors |-> <<>>,
     research_confidence |-> 80]

RealScorings ==
    { [total_score |-> 85, category |-> "hot", budget_score |-> 25,
       timeline_score |-> 20, fit_score |-> 20, engagement_score |-> 20,
       scoring_rationale |-> "Strong fit", priority_notes |-> None],
      [total_score |-> 35, category |-> "nurture", budget_score |-> 5,
       timeline_score |-> 10, fit_score |-> 10, engagement_score |-> 10,
       scoring_rationale |-> "Early stage", priority_notes |-> None] }

RealPersonalization ==
    [custom_opener |-> "Hi Acme",
     pain_point_reference |-> "Slow support",
     value_proposition |-> "Faster replies",
     talking_points |-> <<"Triage">>,
     suggested_questions |-> <<"Volume?">>,
     objection_handlers |-> ("Price" :> "ROI"),
     call_strategy |-> "Consultative"]

Ok(v) == [kind |-> "ok", value |-> v, message |-> ""]
NoOutput(v) == [kind |-> "no_output", value |-> v, message |-> ""]
Raise(v) == [kind |-> "raise", value |-> v, message |-> "boom"]

\* The outcomes of one stage whose structured outputs are vs.
StageOutcomes(vs) ==
    { Ok(v) : v \in vs } \cup { NoOutput(CHOOSE v \in vs : TRUE), Raise(CHOOSE v \in vs : TRUE) }

PreCallOutcomes ==
    [research : StageOutcomes({RealResearch}),
     scoring : StageOutcomes(RealScorings),
     personalization : StageOutcomes({RealPersonalization})]

\* Leads the crew is run on: parsed from payloads that differ in the
\* fields the fallbacks read.
PreCallPayloads ==
    { <<Pair("Name ", Str("Acme")), Pair("Email", Str("a@acme.com"))>>
        \o p \o w \o g \o c \o i \o t :
        p \in PhoneOpts, w \in WebsiteOpts, g \in GoalOpts, c \in ChallengesOpts,
        i \in { x \in CriticalityOpts : ValidCriticality(x) }, t \in TimelineOpts }

PreCallLeads == { Val(parse_form_submission(p).lead) : p \in PreCallPayloads }

PreCallInit ==
    /\ settings \in ThresholdPairs
    /\ phoneIn = None
    /\ phoneOut = None
    /\ rawIn = <<>>
    /\ parseOut = None
    /\ preIn \in { Some([lead |-> l, outs |-> o]) :
                     l \in PreCallLeads, o \in PreCallOutcomes }
    /\ preOut = None
    /\ postIn = None
    /\ postOut = None
    /\ db = EmptyDb
    /\ tasks = <<>>
    /\ last = NoOp

\* A call of PreCallCrew.run on the lead under test.
PreCallCrewRun ==
    /\ IsSome(preIn)
    /\ preOut = None
    /\ preOut' = Some(PreCallCrew_run(Val(preIn).lead, Val(preIn).outs))
    /\ UNCHANGED <<settings, phoneIn, phoneOut, rawIn, parseOut, preIn, postIn, postOut, db, tasks, last>>

PreCallNext == PreCallCrewRun

SpecPreCall == PreCallInit /\ [][PreCallNext]_vars

\* route with strict comparisons.
route_strict(score, hot_threshold, warm_threshold) ==
    IF score > hot_threshold THEN "hot"
    ELSE IF score > warm_threshold THEN "warm"
    ELSE "nurture"

\* The track selection of PostCallCrew.run: the score against the two
\* configured thresholds.
route(score, hot_threshold, warm_threshold) ==
    IF score >= hot_threshold THEN "hot"
    ELSE IF score >= warm_threshold THEN "warm"
    ELSE "nurture"

Degraded(out) == out.kind # "ok"

\* C1 (as stated): the PreCallResult that PreCallCrew.run returns has
\* research, scoring and personalization all present, whatever each
\* stage's reasoning call did.
C1_AllOutputsPresent ==
    (IsSome(preOut) /\ ~Val(preOut).raised)
    => /\ IsSome(Val(Val(preOut).result).research)
       /\ IsSome(Val(Val(preOut).result).scoring)
       /\ IsSome(Val(Val(preOut).result).personalization)

\* The entry a stage leaves in errors for the outcome of its reasoning call.
ExpectedError(stage, out) ==
    IF out.kind = "no_output" THEN <<stage \o " returned no output">>
    ELSE IF out.kind = "raise" THEN <<stage \o " failed: " \o out.message>>
    ELSE <<>>

\* C4: PreCallCrew.run never raises; it returns a PreCallResult with
\* success true whose errors hold, in stage order, one entry naming each
\* stage whose reasoning call raised or returned no output, and nothing
\* for a stage that succeeded; all three reasoning calls are made whatever
\* the earlier ones did.
C4_NeverRaisesErrorsNameDegraded ==
    IsSome(preOut)
    => /\ ~Val(preOut).raised
       /\ IsSome(Val(preOut).result)
       /\ Val(Val(preOut).result).success = TRUE
       /\ Val(Val(preOut).result).errors =
             ExpectedError("Research", Val(preIn).outs.research)
             \o ExpectedError("Scoring", Val(preIn).outs.scoring)
             \o ExpectedError("Personalization", Val(preIn).outs.personalization)
       /\ Len(Val(preOut).calls) = 3

\* C4 witness: a run whose scoring call raised and whose other two calls
\* succeeded has returned its result.
C4_Witness ==
    /\ IsSome(preOut)
    /\ Val(preIn).outs.research.kind = "ok"
    /\ Val(preIn).outs.scoring.kind = "raise"
    /\ Val(preIn).outs.personalization.kind = "ok"
    /\ Len(Val(Val(preOut).result).errors) = 1

\* C5 (as stated): when the scoring stage degrades, the fallback scoring
\* handed to the personalization stage has budget 5 x criticality (15 when
\* absent), timeline 15 or 8, fit 15 or 10, engagement 15 or 10, total the
\* sum of the four, and the category the track selection gives the total
\* under the configured thresholds.
C5_FallbackScoringAsStated ==
    (IsSome(preOut) /\ Degraded(Val(preIn).outs.scoring))
    => LET lead == Val(preIn).lead
           sc == Val(Val(preOut).calls[3].scoring)
       IN /\ sc.budget_score = (IF IsSome(lead.infrastructure_criticality)
                                THEN 5 * Val(lead.infrastructure_criticality)
                                ELSE 15)
          /\ sc.timeline_score = (IF IsSome(lead.timeline) THEN 15 ELSE 8)
          /\ sc.fit_score = (IF IsSome(lead.primary_goal) THEN 15 ELSE 10)
          /\ sc.engagement_score = (IF IsSome(lead.business_challenges) THEN 15 ELSE 10)
          /\ sc.total_score = sc.budget_score + sc.timeline_score
                              + sc.fit_score + sc.engagement_score
          /\ sc.category = route(sc.total_score, settings.HOT_THRESHOLD,
                                 settings.WARM_THRESHOLD)

\* ------------------------------------------------------------------------
\* Post-call crew: Analysis, then one of the hot / warm / nurture tracks
\* ------------------------------------------------------------------------

\* PostCallResult(success=True)
NewPostCallResult ==
    [success |-> TRUE, analysis |-> None, proposal |-> None,
     proposal_pdf_path |-> None, email_sent |-> FALSE,
     meeting_booked |-> FALSE, meeting_link |-> None, errors |-> <<>>]

\* A CallAnalysis, by the fields the crew and the orchestrator read.
CallAnalysis(summary, interest, agreed, time, score) ==
    [call_summary |-> summary,
     sentiment |-> "positive",
     interest_level |-> interest,
     meeting_agreed |-> agreed,
     proposed_meeting_time |-> time,
     recommended_action |-> "Follow up",
     updated_lead_score |-> score]

SUMMARY_LIMIT == 500
FALLBACK_INTEREST == 50

\* summary[:500]
Truncate(str) ==
    IF Len(str) <= SUMMARY_LIMIT THEN str ELSE SubSeq(str, 1, SUMMARY_LIMIT)

_get_fallback_analysis(transcript, call_summary) ==
    LET summary == IF TruthyStr(call_summary) THEN Val(call_summary)
                   ELSE "Call transcript (" \o ToString(Len(transcript)) \o " chars)"
    IN [call_summary |-> Truncate(summary),
        sentiment |-> "neutral",
        interest_level |-> FALLBACK_INTEREST,
        meeting_agreed |-> FALSE,
        proposed_meeting_time |-> None,
        recommended_action |-> "Manual review required - automated analysis failed",
        updated_lead_score |-> FALLBACK_INTEREST]

_run_analysis(inquiry, transcript, call_summary, result, out) ==
    IF out.kind = "ok"
    THEN [ret |-> out.value, result |-> result]
    ELSE [ret |-> _get_fallback_analysis(transcript, call_summary),
          result |-> [result EXCEPT !.errors = Append(@,
                        IF out.kind = "no_output"
                        THEN "Analysis returned no output"
                        ELSE "Analysis failed: " \o out.message)]]

\* _generate_proposal that hands back a placeholder proposal when the
\* proposal call produced none.
_generate_proposal_substitute(inquiry, analysis, result, out) ==
    IF out.kind = "ok"
    THEN [ret |-> Some(out.value), result |-> result]
    ELSE [ret |-> Some([title |-> "Proposal", markdown_content |-> ""]),
          result |-> [result EXCEPT !.errors = Append(@,
                        IF out.kind = "no_output"
                        THEN "Proposal generation returned no output"
                        ELSE "Proposal failed: " \o out.message)]]

\* Returns the proposal, or None with the reason appended to errors.
_generate_proposal(inquiry, analysis, result, out) ==
    IF out.kind = "ok"
    THEN [ret |-> Some(out.value), result |-> result]
    ELSE [ret |-> None,
          result |-> [result EXCEPT !.errors = Append(@,
                        IF out.kind = "no_output"
                        THEN "Proposal generation returned no output"
                        ELSE "Proposal failed: " \o out.message)]]

\* A call of a collaborator (email, calendar, PDF, reasoning).
Call(op, to, meeting_link, proposal_path) ==
    [op |-> op, to |-> to, meeting_link |-> meeting_link,
     proposal_path |-> proposal_path]

\* _book_meeting that reports a booking whatever create_meeting returned.
_book_meeting_always(inquiry, analysis, result, cal) ==
    [ret |-> Some("https://meet/always"),
     result |-> [result EXCEPT !.meeting_booked = TRUE,
                               !.meeting_link = Some("https://meet/always")],
     calls |-> <<>>]

\* _book_meeting that gives up when the proposed time does not parse,
\* without asking for the next available slot.
_book_meeting_no_slot_search(inquiry, analysis, result, cal) ==
    IF cal.raises
    THEN [ret |-> None, calls |-> <<>>,
          result |-> [result EXCEPT !.errors =
                        Append(@, "Meeting booking failed: " \o cal.message)]]
    ELSE IF ~cal.available
    THEN [ret |-> None, calls |-> <<>>,
          result |-> [result EXCEPT !.errors =
                        Append(@, "Calendar service not configured")]]
    ELSE IF ~(TruthyStr(analysis.proposed_meeting_time) /\ IsSome(cal.parsed))
    THEN [ret |-> None, calls |-> <<>>,
          result |-> [result EXCEPT !.errors =
                        Append(@, "No available meeting slots")]]
    ELSE IF TruthyStr(cal.link)
    THEN [ret |-> cal.link,
          calls |-> <<Call("create_meeting", inquiry.email, None, None)>>,
          result |-> [result EXCEPT !.meeting_booked = TRUE,
                                    !.meeting_link = cal.link]]
    ELSE [ret |-> None,
          calls |-> <<Call("create_meeting", inquiry.email, None, None)>>,
          result |-> [result EXCEPT !.errors =
                        Append(@, "Failed to create calendar event")]]

\* cal gives what the calendar collaborator does: raises (at its first
\* call), is_available, parse_meeting_time, find_available_slot and
\* create_meeting results.
_book_meeting(inquiry, analysis, result, cal) ==
    IF cal.raises
    THEN [ret |-> None, calls |-> <<>>,
          result |-> [result EXCEPT !.errors =
                        Append(@, "Meeting booking failed: " \o cal.message)]]
    ELSE IF ~cal.available
    THEN [ret |-> None, calls |-> <<>>,
          result |-> [result EXCEPT !.errors =
                        Append(@, "Calendar service not configured")]]
    ELSE LET parsed == IF TruthyStr(analysis.proposed_meeting_time)
                       THEN cal.parsed ELSE None
             meeting_time == IF IsSome(parsed) THEN parsed ELSE cal.slot
         IN IF IsNone(meeting_time)
            THEN [ret |-> None, calls |-> <<>>,
                  result |-> [result EXCEPT !.errors =
                                Append(@, "No available meeting slots")]]
            ELSE LET c == <<Call("create_meeting", inquiry.email, None, None)>>
                 IN IF TruthyStr(cal.link)
                    THEN [ret |-> cal.link, calls |-> c,
                          result |-> [result EXCEPT !.meeting_booked = TRUE,
                                                    !.meeting_link = cal.link]]
                    ELSE [ret |-> None, calls |-> c,
                          result |-> [result EXCEPT !.errors =
                                        Append(@, "Failed to create calendar event")]]

_process_hot_lead(inquiry, analysis, result, outs) ==
    LET p == _generate_proposal(inquiry, analysis, result, outs.proposal)
        r1 == IF IsSome(p.ret)
              THEN [p.result EXCEPT !.proposal = p.ret,
                                    !.proposal_pdf_path = outs.pdf]
              ELSE p.result
        c1 == <<Call("proposal_agent", inquiry.email, None, None)>>
              \o (IF IsSome(p.ret)
                  THEN <<Call("markdown_to_pdf", inquiry.email, None, None)>>
                  ELSE <<>>)
        book == analysis.meeting_agreed /\ TruthyStr(analysis.proposed_meeting_time)
        b == IF book THEN _book_meeting(inquiry, analysis, r1, outs.calendar)
             ELSE [ret |-> None, result |-> r1, calls |-> <<>>]
        c2 == c1 \o b.calls
              \o <<Call("send_hot_lead_email", inquiry.email, b.ret,
                        b.result.proposal_pdf_path)>>
        r2 == [b.result EXCEPT !.email_sent = outs.email]
    IN [result |-> IF outs.email THEN r2
                   ELSE [r2 EXCEPT !.errors =
                           Append(@, "Failed to send hot lead email")],
        calls |-> c2]

\* _process_warm_lead that also books the meeting the call agreed on.
_process_warm_lead_books(inquiry, analysis, result, outs) ==
    LET book == analysis.meeting_agreed /\ TruthyStr(analysis.proposed_meeting_time)
        b == IF book THEN _book_meeting(inquiry, analysis, result, outs.calendar)
             ELSE [ret |-> None, result |-> result, calls |-> <<>>]
        r == [b.result EXCEPT !.email_sent = outs.email]
    IN [result |-> IF outs.email THEN r
                   ELSE [r EXCEPT !.errors =
                           Append(@, "Failed to send warm lead email")],
        calls |-> b.calls
                  \o <<Call("send_warm_lead_email", inquiry.email, None, None)>>]

_process_warm_lead(inquiry, analysis, result, outs) ==
    LET r == [result EXCEPT !.email_sent = outs.email]
    IN [result |-> IF outs.email THEN r
                   ELSE [r EXCEPT !.errors =
                           Append(@, "Failed to send warm lead email")],
        calls |-> <<Call("send_warm_lead_email", inquiry.email, None, None)>>]

\* _process_nurture_lead that fails the run when the send fails.
_process_nurture_lead_fails_run(inquiry, analysis, result, outs) ==
    LET r == [result EXCEPT !.email_sent = outs.email]
    IN [result |-> IF outs.email THEN r
                   ELSE [r EXCEPT !.success = FALSE,
                                  !.errors =
                           Append(@, "Failed to send nurture email")],
        calls |-> <<Call("send_nurture_email", inquiry.email, None, None)>>]

_process_nurture_lead(inquiry, analysis, result, outs) ==
    LET r == [result EXCEPT !.email_sent = outs.email]
    IN [result |-> IF outs.email THEN r
                   ELSE [r EXCEPT !.errors =
                           Append(@, "Failed to send nurture email")],
        calls |-> <<Call("send_nurture_email", inquiry.email, None, None)>>]

\* PostCallCrew.run.  Returns the PostCallResult, the track whose
\* _process_*_lead method ran, and the collaborator calls in order.
PostCallCrew_run(inquiry, transcript, call_summary, outs) ==
    LET a == _run_analysis(inquiry, transcript, call_summary,
                           NewPostCallResult, outs.analysis)
        analysis == a.ret
        r0 == [a.result EXCEPT !.analysis = Some(analysis)]
        track == route(analysis.interest_level, get_settings.HOT_THRESHOLD,
                       get_settings.WARM_THRESHOLD)
        t == IF track = "hot" THEN _process_hot_lead(inquiry, analysis, r0, outs)
             ELSE IF track = "warm" THEN _process_warm_lead(inquiry, analysis, r0, outs)
             ELSE _process_nurture_lead(inquiry, analysis, r0, outs)
    IN [raised |-> FALSE, result |-> t.result, track |-> track,
        calls |-> <<Call("analysis_agent", inquiry.email, None, None)>> \o t.calls]

\* interest_level and updated_lead_score are validated into 0..MAX_SCORE.
MAX_SCORE == 100
InterestLevels == 0..MAX_SCORE

\* The pre-call lead score stored on the inquiry, and the score the
\* analysis call re-estimates.
LeadScores == {10, 90}

MeetingOpts == { [agreed |-> FALSE, time |-> None],
                 [agreed |-> TRUE, time |-> None],
                 [agreed |-> TRUE, time |-> Some("Tuesday 2pm")] }

RealAnalyses ==
    { CallAnalysis("Discussed support automation", i, m.agreed, m.time, u) :
        i \in InterestLevels, m \in MeetingOpts, u \in LeadScores }

NoValue == [call_summary |-> ""]

AnalysisOutcomes ==
    { Ok(a) : a \in RealAnalyses } \cup { NoOutput(NoValue), Raise(NoValue) }

RealProposal == [title |-> "AI proposal for Acme", markdown_content |-> "# Proposal"]

ProposalOutcomes == StageOutcomes({RealProposal})

PdfOutcomes == { None, Some("/tmp/proposals/proposal_Acme.pdf") }

CalendarOutcome(raises, available, parsed, slot, link) ==
    [raises |-> raises, message |-> "boom", available |-> available,
     parsed |-> parsed, slot |-> slot, link |-> link]

CalendarOutcomes ==
    { CalendarOutcome(TRUE, TRUE, None, None, None),
      CalendarOutcome(FALSE, FALSE, None, None, None),
      CalendarOutcome(FALSE, TRUE, None, None, None),
      CalendarOutcome(FALSE, TRUE, Some("tue-14:00"), None, None),
      CalendarOutcome(FALSE, TRUE, Some("tue-14:00"), None, Some("https://meet/abc")),
      CalendarOutcome(FALSE, TRUE, None, Some("wed-10:00"), Some("https://meet/abc")) }

\* What the collaborators do in a run whose analysis call did a.  The PDF
\* collaborator is called only with a proposal.
CollaboratorOutcomes(a) ==
    { o \in [analysis : {a}, proposal : ProposalOutcomes,
             pdf : PdfOutcomes, calendar : CalendarOutcomes, email : BOOLEAN] :
        o.proposal.kind # "ok" => o.pdf = None }

PostCallInquiries ==
    { [id |-> "inq_1", company_name |-> "Acme", email |-> "a@acme.com",
       lead_score |-> Some(sc)] : sc \in LeadScores }

\* The summaries the voice platform may send with the call; only the
\* analysis fallback reads the summary.
CallSummaries(a) ==
    IF a.kind = "ok" THEN {Some("Good call")} ELSE {None, Some("Good call")}

PostCallInputs ==
    UNION { { Some([inquiry |-> q, transcript |-> "Agent: hello. User: hi.",
                    call_summary |-> cs, analysis |-> a]) :
                q \in PostCallInquiries, cs \in CallSummaries(a) } :
            a \in AnalysisOutcomes }

PostCallInit ==
    /\ settings \in ThresholdPairs
    /\ phoneIn = None
    /\ phoneOut = None
    /\ rawIn = <<>>
    /\ parseOut = None
    /\ preIn = None
    /\ preOut = None
    /\ postIn \in PostCallInputs
    /\ postOut = None
    /\ db = EmptyDb
    /\ tasks = <<>>
    /\ last = NoOp

\* A call of PostCallCrew.run on the completed call under test; the
\* collaborators' outcomes are kept beside the result.
PostCallCrewRun ==
    /\ IsSome(postIn)
    /\ postOut = None
    /\ \E o \in CollaboratorOutcomes(Val(postIn).analysis) :
         /\ postOut' = Some([outs |-> o] @@
                PostCallCrew_run(Val(postIn).inquiry, Val(postIn).transcript,
                                 Val(postIn).call_summary, o))
    /\ UNCHANGED <<settings, phoneIn, phoneOut, rawIn, parseOut, preIn, preOut,
                   postIn, db, tasks, last>>

PostCallNext == PostCallCrewRun

SpecPostCall == PostCallInit /\ [][PostCallNext]_vars

\* The email collaborator calls among the calls of a run.
EmailCalls(calls) ==
    SelectSeq(calls, LAMBDA c : c.op \in {"send_hot_lead_email",
                                          "send_warm_lead_email",
                                          "send_nurture_email"})

\* C2: PostCallCrew.run runs exactly one track, fixed by the analysis'
\* interest_level and the two configured thresholds alone: hot at or above
\* HOT_THRESHOLD, warm from WARM_THRESHOLD up to HOT_THRESHOLD - 1, nurture
\* below WARM_THRESHOLD (with 70/40: 85 and 70 hot, 69 and 40 warm, 39 and
\* 0 nurture), whatever the inquiry's lead score and the analysis'
\* updated_lead_score are; only that track's email template is used.
C2_TrackByInterestLevel ==
    IsSome(postOut)
    => LET out == Val(postOut)
           level == Val(out.result.analysis).interest_level
           hot == settings.HOT_THRESHOLD
           warm == settings.WARM_THRESHOLD
           expected == IF level >= hot THEN "hot"
                       ELSE IF warm <= level /\ level < hot THEN "warm"
                       ELSE "nurture"
       IN /\ level < warm => expected = "nurture"
          /\ out.track = expected
          /\ Len(EmailCalls(out.calls)) = 1
          /\ EmailCalls(out.calls)[1].op =
               (IF expected = "hot" THEN "send_hot_lead_email"
                ELSE IF expected = "warm" THEN "send_warm_lead_email"
                ELSE "send_nurture_email")
          /\ (settings = DefaultSettings /\ level \in {85, 70}) => out.track = "hot"
          /\ (settings = DefaultSettings /\ level \in {69, 40}) => out.track = "warm"
          /\ (settings = DefaultSettings /\ level \in {39, 0}) => out.track = "nurture"

\* C2 witness: an analysis whose interest_level is exactly HOT_THRESHOLD,
\* with a low lead score and a low updated_lead_score, took the hot track.
C2_Witness ==
    /\ IsSome(postOut)
    /\ Val(postIn).analysis.kind = "ok"
    /\ Val(postIn).analysis.value.interest_level = settings.HOT_THRESHOLD
    /\ Val(postIn).analysis.value.updated_lead_score = 10
    /\ Val(postIn).inquiry.lead_score = Some(10)
    /\ Val(postOut).track = "hot"

CalendarBooks(analysis, cal) ==
    /\ ~cal.raises
    /\ cal.available
    /\ IsSome(cal.parsed) \/ IsSome(cal.slot)
    /\ IsSome(cal.link)

LeadStatus ==
    {"new", "researching", "research_complete", "research_failed",
     "call_scheduled", "call_in_progress", "call_completed", "call_failed",
     "analyzing", "hot_lead", "warm_lead", "nurture", "closed_won",
     "closed_lost"}

\* InquiryRecord(**row): the row as a record, or a validation error.
InquiryRecord(row) ==
    IF row.status \in LeadStatus
    THEN [raised |-> FALSE, record |-> Some(row)]
    ELSE [raised |-> TRUE, record |-> None]

\* Ids under which the table has no row yet.
FreeIds(d) == { i \in InquiryIds : IsNone(d[i]) }

\* The id the table gives the next inserted row.
NextId(d) ==
    IdOf(CHOOSE n \in 1..MaxInquiries :
            /\ IsNone(d[IdOf(n)])
            /\ \A m \in 1..(n - 1) : IsSome(d[IdOf(m)]))

\* create_inquiry that returns an id without inserting the row.
create_inquiry_no_insert(d, lead, ok) ==
    IF ~ok \/ FreeIds(d) = {}
    THEN [db |-> d, inquiry_id |-> None]
    ELSE [db |-> d, inquiry_id |-> Some(NextId(d))]

\* create_inquiry: inserts the lead with status "new" and returns the new
\* id; returns None when the insert fails (ok false).
create_inquiry(d, lead, ok) ==
    IF ~ok \/ FreeIds(d) = {}
    THEN [db |-> d, inquiry_id |-> None]
    ELSE LET id == NextId(d)
             row == [id |-> id,
                     company_name |-> lead.company_name,
                     email |-> lead.email,
                     phone |-> lead.phone,
                     status |-> "new",
                     company_research |-> None,
                     lead_score |-> None,
                     lead_category |-> None,
                     scoring_details |-> None,
                     retell_call_id |-> None,
                     call_transcript |-> None,
                     call_analysis |-> None,
                     proposal_url |-> None,
                     meeting_booked |-> FALSE,
                     meeting_link |-> None,
                     followup_sent |-> FALSE]
         IN [db |-> [d EXCEPT ![id] = Some(row)], inquiry_id |-> Some(id)]

\* get_inquiry: .single() fails without a row and InquiryRecord(**row) may
\* fail validation; every exception is caught and None returned.
get_inquiry(d, inquiry_id) ==
    IF inquiry_id \notin InquiryIds \/ IsNone(d[inquiry_id]) THEN None
    ELSE InquiryRecord(Val(d[inquiry_id])).record

\* get_inquiry_by_call_id that hands back a row whatever the call id is.
get_inquiry_by_call_id_any(d, call_id) ==
    LET rows == { i \in InquiryIds : IsSome(d[i]) }
    IN IF rows = {} THEN None ELSE d[CHOOSE i \in rows : TRUE]

\* get_inquiry_by_call_id: the single row whose retell_call_id is call_id.
get_inquiry_by_call_id(d, call_id) ==
    LET rows == { i \in InquiryIds :
                    IsSome(d[i]) /\ IsSome(call_id)
                    /\ Val(d[i]).retell_call_id = call_id }
    IN IF Cardinality(rows) # 1 THEN None
       ELSE InquiryRecord(Val(d[CHOOSE i \in rows : TRUE])).record

\* update_inquiry: partial update of the row under inquiry_id.
update_inquiry(d, inquiry_id, updates) ==
    IF inquiry_id \notin InquiryIds \/ IsNone(d[inquiry_id]) THEN d
    ELSE [d EXCEPT ![inquiry_id] = Some(updates @@ Val(d[inquiry_id]))]

update_research(d, inquiry_id, research_data, lead_score, lead_category, scoring_details) ==
    update_inquiry(d, inquiry_id,
        [company_research |-> research_data,
         lead_score |-> Some(lead_score),
         lead_category |-> Some(lead_category),
         scoring_details |-> scoring_details,
         status |-> "researched"])

\* update_call_initiated that sets the status without storing the call id.
update_call_initiated_status_only(d, inquiry_id, call_id) ==
    update_inquiry(d, inquiry_id, [status |-> "call_initiated"])

update_call_initiated(d, inquiry_id, call_id) ==
    update_inquiry(d, inquiry_id,
        [retell_call_id |-> Some(call_id), status |-> "call_initiated"])

update_call_completed(d, inquiry_id, transcript) ==
    update_inquiry(d, inquiry_id,
        [call_transcript |-> Some(transcript), status |-> "call_completed"])

update_call_analysis(d, inquiry_id, analysis_data) ==
    update_inquiry(d, inquiry_id,
        [call_analysis |-> Some(analysis_data), status |-> "analyzed"])

update_hot_processed(d, inquiry_id, proposal_url, meeting_booked, meeting_link) ==
    update_inquiry(d, inquiry_id,
        IF TruthyStr(meeting_link)
        THEN [proposal_url |-> Some(proposal_url), meeting_booked |-> meeting_booked,
              followup_sent |-> TRUE, status |-> "hot_processed",
              meeting_link |-> meeting_link]
        ELSE [proposal_url |-> Some(proposal_url), meeting_booked |-> meeting_booked,
              followup_sent |-> TRUE, status |-> "hot_processed"])

update_warm_processed(d, inquiry_id) ==
    update_inquiry(d, inquiry_id,
        [followup_sent |-> TRUE, status |-> "warm_processed"])

update_nurture_processed(d, inquiry_id) ==
    update_inquiry(d, inquiry_id,
        [followup_sent |-> TRUE, status |-> "nurture_processed"])

update_status(d, inquiry_id, status) ==
    update_inquiry(d, inquiry_id, [status |-> status])

\* ------------------------------------------------------------------------
\* The webhook endpoints and their background tasks
\* ------------------------------------------------------------------------

\* At most MaxTasks background tasks wait to run.
MaxTasks == 2

\* An HTTP response: the status code, the body's status, the inquiry id.
Response(code, status, inquiry_id) ==
    [code |-> code, status |-> status, inquiry_id |-> inquiry_id]

HTTP_ACCEPTED == 202
HTTP_OK == 200
HTTP_BAD_REQUEST == 400
HTTP_NOT_FOUND == 404
HTTP_SERVER_ERROR == 500

\* The characters of the phone numbers submitted in this model.
CharsOf(phone) ==
    IF IsNone(phone) THEN None
    ELSE IF Val(phone) = "4155551234"
    THEN Some(<<"4", "1", "5", "5", "5", "5", "1", "2", "3", "4">>)
    ELSE IF Val(phone) = "12345" THEN Some(<<"1", "2", "3", "4", "5">>)
    ELSE Some(<<>>)

\* form_webhook without the test for the Email field.
form_webhook_no_email_check(s, raw_data, db_ok) ==
    LET parsed == parse_form_submission(raw_data) IN
    IF parsed.raised
    THEN [db |-> s.db, tasks |-> s.tasks,
          response |-> Response(HTTP_SERVER_ERROR, "Failed to process", None)]
    ELSE LET lead == Val(parsed.lead)
             c == create_inquiry(s.db, lead, db_ok)
         IN IF IsNone(c.inquiry_id)
            THEN [db |-> c.db, tasks |-> s.tasks,
                  response |-> Response(HTTP_SERVER_ERROR,
                                        "Failed to create inquiry", None)]
            ELSE [db |-> c.db,
                  tasks |-> Append(s.tasks,
                              [kind |-> "form", lead |-> lead,
                               inquiry_id |-> Val(c.inquiry_id)]),
                  response |-> Response(HTTP_ACCEPTED, "accepted", c.inquiry_id)]

\* POST /webhook/form.  s holds the table and the pending tasks; db_ok says
\* whether the insert succeeds.
form_webhook(s, raw_data, db_ok) ==
    IF ~TruthyStr(RawField(raw_data, "Email"))
    THEN [db |-> s.db, tasks |-> s.tasks,
          response |-> Response(HTTP_BAD_REQUEST, "Missing required field: Email", None)]
    ELSE LET parsed == parse_form_submission(raw_data) IN
         IF parsed.raised
         THEN [db |-> s.db, tasks |-> s.tasks,
               response |-> Response(HTTP_SERVER_ERROR, "Failed to process", None)]
         ELSE LET lead == Val(parsed.lead)
                  c == create_inquiry(s.db, lead, db_ok)
              IN IF IsNone(c.inquiry_id)
                 THEN [db |-> c.db, tasks |-> s.tasks,
                       response |-> Response(HTTP_SERVER_ERROR,
                                             "Failed to create inquiry", None)]
                 ELSE [db |-> c.db,
                       tasks |-> Append(s.tasks,
                                   [kind |-> "form", lead |-> lead,
                                    inquiry_id |-> Val(c.inquiry_id)]),
                       response |-> Response(HTTP_ACCEPTED, "accepted", c.inquiry_id)]

\* The research update both form flows make once the crew has returned:
\* only when the result carries a research or a scoring value.
PersistPreCall(d, inquiry_id, result) ==
    IF IsSome(result.research) \/ IsSome(result.scoring)
    THEN update_research(d, inquiry_id,
            result.research,
            IF IsSome(result.scoring) THEN Val(result.scoring).total_score ELSE 50,
            IF IsSome(result.scoring) THEN Val(result.scoring).category ELSE "warm",
            result.scoring)
    ELSE d

\* _process_form_background: the pre-call crew, the research update, and
\* the outbound call when the lead has a phone.  trigger holds what
\* create_call returned, when it was invoked.
_process_form_background(d, lead, inquiry_id, outs, api, call_id) ==
    LET run == PreCallCrew_run(lead, outs) IN
    IF run.raised THEN [db |-> d, calls |-> run.calls, trigger |-> None]
    ELSE
    LET result == Val(run.result)
        d1 == PersistPreCall(d, inquiry_id, result)
    IN IF ~TruthyStr(lead.phone)
       THEN [db |-> d1, calls |-> run.calls, trigger |-> None]
       ELSE LET c == RetellService_create_call(CharsOf(lead.phone), api, call_id)
                calls == Append(run.calls, AgentCall("create_call", None, None))
            IN IF TruthyStr(c.call_id)
               THEN [db |-> update_call_initiated(d1, inquiry_id, Val(c.call_id)),
                     calls |-> calls, trigger |-> Some(c)]
               ELSE [db |-> update_status(d1, inquiry_id, "call_failed"),
                     calls |-> calls, trigger |-> Some(c)]

\* LeadProcessor._run_pre_call_pipeline: the crew and the research update;
\* an exception marks the row research_failed and gives an empty result.
_run_pre_call_pipeline(d, lead, inquiry_id, outs) ==
    LET run == PreCallCrew_run(lead, outs) IN
    IF run.raised
    THEN [db |-> update_status(d, inquiry_id, "research_failed"),
          result |-> [NewPreCallResult EXCEPT !.success = FALSE,
                                              !.errors = <<"error">>],
          calls |-> run.calls]
    ELSE [db |-> PersistPreCall(d, inquiry_id, Val(run.result)),
          result |-> Val(run.result),
          calls |-> run.calls]

\* LeadProcessor._trigger_retell_call: the call through RetellCaller.
_trigger_retell_call(d, lead, inquiry_id, pre_call_result, api, call_id) ==
    LET c == RetellCaller_create_call(CharsOf(lead.phone), api, call_id) IN
    IF TruthyStr(c.call_id)
    THEN [db |-> update_call_initiated(d, inquiry_id, Val(c.call_id)),
          trigger |-> Some(c)]
    ELSE [db |-> update_status(d, inquiry_id, "call_failed"),
          trigger |-> Some(c)]

\* process_form_webhook that goes on with the pipeline when create_inquiry
\* returned no id.
process_form_webhook_unchecked(d, raw_data, db_ok, outs, api, call_id) ==
    LET parsed == parse_form_submission(raw_data) IN
    IF parsed.raised
    THEN [db |-> d, raised |-> TRUE, inquiry_id |-> None, calls |-> <<>>,
          trigger |-> None]
    ELSE
    LET lead == Val(parsed.lead)
        c == create_inquiry(d, lead, db_ok)
        inquiry_id == IF IsNone(c.inquiry_id) THEN IdOf(1) ELSE Val(c.inquiry_id)
        pre == _run_pre_call_pipeline(c.db, lead, inquiry_id, outs)
    IN IF TruthyStr(lead.phone)
       THEN LET t == _trigger_retell_call(pre.db, lead, inquiry_id,
                                          pre.result, api, call_id)
            IN [db |-> t.db, raised |-> FALSE, inquiry_id |-> c.inquiry_id,
                calls |-> Append(pre.calls, AgentCall("create_call", None, None)),
                trigger |-> t.trigger]
       ELSE [db |-> update_status(pre.db, inquiry_id, "research_failed"),
             raised |-> FALSE, inquiry_id |-> c.inquiry_id,
             calls |-> pre.calls, trigger |-> None]

\* LeadProcessor.process_form_webhook: the whole form flow in one call.
\* raised says that an exception reached the caller.
process_form_webhook(d, raw_data, db_ok, outs, api, call_id) ==
    LET parsed == parse_form_submission(raw_data) IN
    IF parsed.raised
    THEN [db |-> d, raised |-> TRUE, inquiry_id |-> None, calls |-> <<>>,
          trigger |-> None]
    ELSE
    LET lead == Val(parsed.lead)
        c == create_inquiry(d, lead, db_ok)
    IN IF IsNone(c.inquiry_id)
       THEN [db |-> c.db, raised |-> TRUE, inquiry_id |-> None, calls |-> <<>>,
             trigger |-> None]
       ELSE
       LET inquiry_id == Val(c.inquiry_id)
           pre == _run_pre_call_pipeline(c.db, lead, inquiry_id, outs)
       IN IF TruthyStr(lead.phone)
          THEN LET t == _trigger_retell_call(pre.db, lead, inquiry_id,
                                             pre.result, api, call_id)
               IN [db |-> t.db, raised |-> FALSE, inquiry_id |-> c.inquiry_id,
                   calls |-> Append(pre.calls, AgentCall("create_call", None, None)),
                   trigger |-> t.trigger]
          ELSE [db |-> update_status(pre.db, inquiry_id, "research_failed"),
                raised |-> FALSE, inquiry_id |-> c.inquiry_id,
                calls |-> pre.calls, trigger |-> None]

\* retell_webhook that queues the background task for every event.
retell_webhook_queues_all(s, payload) ==
    [db |-> s.db,
     tasks |-> Append(s.tasks, [kind |-> "retell", payload |-> payload]),
     response |-> Response(HTTP_ACCEPTED, "accepted", None)]

\* POST /webhook/retell.  A payload without an event fails validation.
retell_webhook(s, payload) ==
    IF IsNone(payload.event)
    THEN [db |-> s.db, tasks |-> s.tasks,
          response |-> Response(HTTP_SERVER_ERROR, "Failed to process", None)]
    ELSE IF Val(payload.event) # "call_analyzed"
    THEN [db |-> s.db, tasks |-> s.tasks,
          response |-> Response(HTTP_ACCEPTED, "ignored", None)]
    ELSE [db |-> s.db,
          tasks |-> Append(s.tasks, [kind |-> "retell", payload |-> payload]),
          response |-> Response(HTTP_ACCEPTED, "accepted", None)]

\* _update_post_call_results that marks the record warm or nurture whether
\* or not the follow-up email went out.
_update_post_call_results_ignores_email(d, inquiry_id, result) ==
    LET d1 == IF IsSome(result.analysis)
              THEN update_call_analysis(d, inquiry_id, Val(result.analysis))
              ELSE d
    IN IF TruthyStr(result.proposal_pdf_path) \/ result.meeting_booked
       THEN update_hot_processed(d1, inquiry_id,
                OrStr(result.proposal_pdf_path, ""),
                result.meeting_booked, result.meeting_link)
       ELSE IF IsSome(result.analysis)
       THEN IF Val(result.analysis).interest_level >= get_settings.WARM_THRESHOLD
            THEN update_warm_processed(d1, inquiry_id)
            ELSE update_nurture_processed(d1, inquiry_id)
       ELSE d1

\* LeadProcessor._update_post_call_results
_update_post_call_results(d, inquiry_id, result) ==
    LET d1 == IF IsSome(result.analysis)
              THEN update_call_analysis(d, inquiry_id, Val(result.analysis))
              ELSE d
    IN IF TruthyStr(result.proposal_pdf_path) \/ result.meeting_booked
       THEN update_hot_processed(d1, inquiry_id,
                OrStr(result.proposal_pdf_path, ""),
                result.meeting_booked, result.meeting_link)
       ELSE IF result.email_sent /\ IsSome(result.analysis)
       THEN IF Val(result.analysis).interest_level >= get_settings.WARM_THRESHOLD
            THEN update_warm_processed(d1, inquiry_id)
            ELSE update_nurture_processed(d1, inquiry_id)
       ELSE d1

\* LeadProcessor.process_retell_webhook.  outs gives what the post-call
\* crew's collaborators do if the crew is run.
process_retell_webhook(d, payload, outs) ==
    IF payload.event # Some("call_analyzed") THEN [db |-> d, calls |-> <<>>]
    ELSE LET inquiry == get_inquiry_by_call_id(d, payload.call_id) IN
         IF IsNone(inquiry) THEN [db |-> d, calls |-> <<>>]
         ELSE LET inquiry_id == Val(inquiry).id
                  d1 == update_call_completed(d, inquiry_id, payload.transcript)
                  run == PostCallCrew_run(Val(inquiry), payload.transcript,
                                          Some(payload.call_summary), outs)
              IN [db |-> _update_post_call_results(d1, inquiry_id, run.result),
                  calls |-> run.calls]

\* GET /webhook/status/{inquiry_id}
get_inquiry_status(d, inquiry_id) ==
    LET inquiry == get_inquiry(d, inquiry_id) IN
    IF IsNone(inquiry)
    THEN Response(HTTP_NOT_FOUND, "Inquiry not found", None)
    ELSE Response(HTTP_OK, Val(inquiry).status, Some(Val(inquiry).id))

\* Form submissions: complete, without a phone, with a short phone,
\* without an email, without a name.
FormPayloads ==
    { <<Pair("Name ", Str("Acme")), Pair("Email", Str("a@acme.com")),
        Pair("Phone Number ", Str("4155551234"))>>,
      <<Pair("Name ", Str("Acme")), Pair("Email", Str("a@acme.com"))>>,
      <<Pair("Name ", Str("Acme")), Pair("Email", Str("a@acme.com")),
        Pair("Phone Number ", Str("12345"))>>,
      <<Pair("Name ", Str("Acme")), Pair("Phone Number ", Str("4155551234"))>>,
      <<Pair("Email", Str("a@acme.com"))>> }

\* What the three pre-call reasoning calls do in a background task: all
\* succeed, research alone fails, or none returns an output.
FormTaskOutcomes ==
    { o \in PreCallOutcomes :
        /\ o.scoring.value.total_score = 85
        /\ \/ o.research.kind = "ok" /\ o.scoring.kind = "ok"
                /\ o.personalization.kind = "ok"
           \/ o.research.kind = "raise" /\ o.scoring.kind = "ok"
                /\ o.personalization.kind = "ok"
           \/ o.research.kind = "no_output" /\ o.scoring.kind = "no_output"
                /\ o.personalization.kind = "no_output" }

\* Events the voice platform delivers: the event name (None: malformed
\* body), the call id, the transcript and the summary.
RetellEvents == {None, Some("call_analyzed"), Some("call_ended")}

RetellCallIds == {None} \cup { Some(c) : c \in CallIds \cup {"call_unknown"} }

RetellPayloads ==
    { [event |-> e, call_id |-> c, transcript |-> "Agent: hello. User: hi.",
       call_summary |-> "Good call"] :
        e \in RetellEvents, c \in RetellCallIds }

\* What the post-call collaborators do in a background task: the proposal
\* call succeeds (with a PDF) and the calendar books, or the proposal call
\* raises and the calendar is not configured; the email is sent or not.
RetellTaskOutcomes ==
    UNION { { o \in CollaboratorOutcomes(a) :
                /\ o.proposal.kind \in {"ok", "raise"}
                /\ o.proposal.kind = "ok" => IsSome(o.pdf)
                /\ o.calendar.available => IsSome(o.calendar.parsed) /\ IsSome(o.calendar.link)
                /\ o.calendar.available <=> o.proposal.kind = "ok"
                /\ ~o.calendar.raises } :
              a \in { Ok(CallAnalysis("Discussed support automation", 85, TRUE,
                                      Some("Tuesday 2pm"), 90)),
                      Ok(CallAnalysis("Discussed support automation", 50, FALSE,
                                      None, 10)),
                      NoOutput(NoValue) } }

\* Call ids no row carries yet (the voice platform issues fresh ids).
FreshCallIds(d) ==
    { c \in CallIds : \A i \in InquiryIds :
                        IsNone(d[i]) \/ Val(d[i]).retell_call_id # Some(c) }

\* The id the voice platform issues for the next call it creates.
NextCallId(d) ==
    IF FreshCallIds(d) = {} THEN "call_a"
    ELSE IF "call_a" \in FreshCallIds(d) THEN "call_a"
    ELSE CHOOSE c \in FreshCallIds(d) : TRUE

\* Remove the i-th pending task.
RemoveAt(q, i) == SubSeq(q, 1, i - 1) \o SubSeq(q, i + 1, Len(q))

Init ==
    /\ settings = DefaultSettings
    /\ phoneIn = None
    /\ phoneOut = None
    /\ rawIn = <<>>
    /\ parseOut = None
    /\ preIn = None
    /\ preOut = None
    /\ postIn = None
    /\ postOut = None
    /\ db = EmptyDb
    /\ tasks = <<>>
    /\ last = NoOp

\* What each of the three reasoning calls of a run did.
Kinds(outs) ==
    [research |-> outs.research.kind, scoring |-> outs.scoring.kind,
     personalization |-> outs.personalization.kind]

Frozen == <<settings, phoneIn, phoneOut, rawIn, parseOut, preIn, preOut,
            postIn, postOut>>

\* A form submission arrives at POST /webhook/form.
FormWebhook ==
    /\ Len(tasks) < MaxTasks
    /\ \E raw_data \in FormPayloads, db_ok \in BOOLEAN :
         \E r \in {form_webhook([db |-> db, tasks |-> tasks], raw_data, db_ok)} :
            /\ db' = r.db
            /\ tasks' = r.tasks
            /\ last' = [raw_data |-> raw_data, db_ok |-> db_ok]
                        @@ Op("form_webhook", r.response.inquiry_id, None, None,
                              Some(r.response), <<>>)
    /\ UNCHANGED Frozen

\* A pending form task runs to completion.
ProcessFormBackground ==
    /\ \E i \in 1..Len(tasks) :
         /\ tasks[i].kind = "form"
         /\ \E outs \in FormTaskOutcomes, api \in ApiOutcomes :
              /\ api = "created" => FreshCallIds(db) # {}
              /\ \E r \in {_process_form_background(db, tasks[i].lead,
                              tasks[i].inquiry_id, outs, api, NextCallId(db))} :
                    /\ db' = r.db
                    /\ last' = [outs |-> Kinds(outs), trigger |-> r.trigger]
                                @@ Op("_process_form_background",
                                      Some(tasks[i].inquiry_id), None, None,
                                      None, r.calls)
         /\ tasks' = RemoveAt(tasks, i)
    /\ UNCHANGED Frozen

\* LeadProcessor.process_form_webhook is called with a submission.
ProcessFormWebhook ==
    /\ \E raw_data \in FormPayloads, db_ok \in BOOLEAN,
          outs \in FormTaskOutcomes, api \in ApiOutcomes :
         /\ api = "created" => FreshCallIds(db) # {}
         /\ \E r \in {process_form_webhook(db, raw_data, db_ok, outs, api,
                                          NextCallId(db))} :
               /\ db' = r.db
               /\ last' = [raw_data |-> raw_data, db_ok |-> db_ok,
                           outs |-> Kinds(outs), trigger |-> r.trigger,
                           raised |-> r.raised]
                          @@ Op("process_form_webhook", r.inquiry_id, None, None,
                                None, r.calls)
    /\ UNCHANGED tasks
    /\ UNCHANGED Frozen

\* An event arrives at POST /webhook/retell.
RetellWebhook ==
    /\ Len(tasks) < MaxTasks
    /\ \E payload \in RetellPayloads :
         \E r \in {retell_webhook([db |-> db, tasks |-> tasks], payload)} :
            /\ db' = r.db
            /\ tasks' = r.tasks
            /\ last' = Op("retell_webhook", None, payload.event,
                          payload.call_id, Some(r.response), <<>>)
    /\ UNCHANGED Frozen

\* A pending event task runs to completion.
ProcessRetellBackground ==
    /\ \E i \in 1..Len(tasks) :
         /\ tasks[i].kind = "retell"
         /\ \E outs \in RetellTaskOutcomes :
              \E r \in {process_retell_webhook(db, tasks[i].payload, outs)} :
                 /\ db' = r.db
                 /\ last' = Op("process_retell_webhook", None,
                               tasks[i].payload.event, tasks[i].payload.call_id,
                               None, r.calls)
         /\ tasks' = RemoveAt(tasks, i)
    /\ UNCHANGED Frozen

\* A client asks GET /webhook/status/{inquiry_id}.
GetInquiryStatus ==
    /\ \E inquiry_id \in InquiryIds \cup {"inq_missing"} :
         last' = Op("get_inquiry_status", Some(inquiry_id), None, None,
                    Some(get_inquiry_status(db, inquiry_id)), <<>>)
    /\ UNCHANGED <<db, tasks>>
    /\ UNCHANGED Frozen

Next ==
    \/ FormWebhook
    \/ ProcessFormBackground
    \/ RetellWebhook
    \/ ProcessRetellBackground
    \/ GetInquiryStatus

Spec == Init /\ [][Next]_vars

\* The form flow alone, in both implementations: the endpoint with its
\* background task, and LeadProcessor.process_form_webhook.
FormInit == Init

FormNext ==
    \/ FormWebhook
    \/ ProcessFormBackground
    \/ ProcessFormWebhook

SpecForm == FormInit /\ [][FormNext]_vars

\* No row of the table carries this call id.
UnknownCallId(d, call_id) ==
    \A i \in InquiryIds :
        IsNone(d[i]) \/ IsNone(call_id) \/ Val(d[i]).retell_call_id # call_id

\* C6: when process_retell_webhook handles a call_analyzed event whose call
\* id no row carries, it returns having changed no row and having called
\* neither the post-call crew nor any collaborator.
C6_UnknownCallIdNoEffect ==
    [][ (/\ last'.op = "process_retell_webhook"
         /\ last'.event = Some("call_analyzed")
         /\ UnknownCallId(db, last'.call_id))
        => (db' = db /\ last'.calls = <<>>) ]_vars

\* C6 witness: a call_analyzed event for call_unknown has been processed
\* while a row carries another call id.
C6_Witness ==
    /\ last.op = "process_retell_webhook"
    /\ last.event = Some("call_analyzed")
    /\ last.call_id = Some("call_unknown")
    /\ \E i \in InquiryIds : IsSome(db[i]) /\ IsSome(Val(db[i]).retell_call_id)

\* C7: when POST /webhook/retell receives an event other than
\* call_analyzed, it answers 202 with status "ignored", queues no
\* background task, and reads or changes no row; no crew or collaborator
\* is called.
C7_OtherEventsIgnored ==
    [][ (/\ last'.op = "retell_webhook"
         /\ IsSome(last'.event)
         /\ last'.event # Some("call_analyzed"))
        => (/\ Val(last'.response).code = HTTP_ACCEPTED
            /\ Val(last'.response).status = "ignored"
            /\ tasks' = tasks
            /\ db' = db
            /\ last'.calls = <<>>) ]_vars

\* C7 witness: a call_ended event for a call id that a row carries has
\* been answered.
C7_Witness ==
    /\ last.op = "retell_webhook"
    /\ last.event = Some("call_ended")
    /\ IsSome(last.response)
    /\ \E i \in InquiryIds : IsSome(db[i]) /\ Val(db[i]).retell_call_id = last.call_id

\* C8 (as stated): the status lookup answers with the row's current
\* status for every id that has a row, whatever status was written last,
\* and answers not-found only for an id without a row.
C8_StatusLookupAsStated ==
    last.op = "get_inquiry_status"
    => LET id == Val(last.inquiry_id)
           resp == Val(last.response)
       IN IF id \in InquiryIds /\ IsSome(db[id])
          THEN resp.code = HTTP_OK /\ resp.status = Val(db[id]).status
          ELSE resp.code = HTTP_NOT_FOUND

\* C17 (as stated): whatever the raw criticality value is, parsing does not
\* raise: the Lead's infrastructure_criticality is the integer when the
\* value spells an integer from 1 to 5, and absent for any other value
\* (text, 0, 6, a negative number).
C17_CriticalityNormalisedAsStated ==
    (IsSome(parseOut) /\ HasWellFormedEmail(rawIn) /\ HasCompanyName(rawIn))
    => LET c == RawField(rawIn, Q_CRITICALITY)
           n == IF IsNone(c) THEN None ELSE IntOfStr(Val(c))
       IN /\ ~Val(parseOut).raised
          /\ Val(Val(parseOut).lead).infrastructure_criticality =
               (IF IsSome(n) /\ Val(n) \in 1..5 THEN n ELSE None)

\* C11: a form submission without an email is answered with HTTP 400 and a
\* message naming the Email field; the submission creates no record, queues
\* no background task, and runs neither the pipeline nor the call trigger.
C11_MissingEmailRejected ==
    [][ (/\ last'.op = "form_webhook"
         /\ IsNone(RawField(last'.raw_data, "Email")))
        => (/\ Val(last'.response).code = HTTP_BAD_REQUEST
            /\ Val(last'.response).status = "Missing required field: Email"
            /\ IsNone(Val(last'.response).inquiry_id)
            /\ db' = db
            /\ tasks' = tasks
            /\ last'.calls = <<>>) ]_vars

\* C11 witness: a submission that carries a name and a phone but no email
\* has been answered with HTTP 400.
C11_Witness ==
    /\ last.op = "form_webhook"
    /\ IsNone(RawField(last.raw_data, "Email"))
    /\ IsSome(RawField(last.raw_data, "Name "))
    /\ Val(last.response).code = HTTP_BAD_REQUEST

\* The pending task a handler has just queued.
Queued(q, q2) == Len(q2) = Len(q) + 1 /\ SubSeq(q2, 1, Len(q)) = q

\* C12 as stated: each webhook entry point acknowledges only after its
\* durable checkpoint is persisted: a form submission is answered 202 only
\* once its record exists with status new, and a call_analyzed event for a
\* call a record carries is answered 202 only once the call data is saved
\* on that record.
C12_AckAfterCheckpointAsStated ==
    [][ /\ (/\ last'.op = "form_webhook"
            /\ Val(last'.response).code = HTTP_ACCEPTED)
           => LET id == Val(last'.inquiry_id)
              IN IsSome(db'[id]) /\ Val(db'[id]).status = "new"
        /\ (/\ last'.op = "retell_webhook"
            /\ last'.event = Some("call_analyzed")
            /\ Val(last'.response).code = HTTP_ACCEPTED
            /\ ~UnknownCallId(db, last'.call_id))
           => \E i \in InquiryIds :
                /\ IsSome(db'[i])
                /\ Val(db'[i]).retell_call_id = last'.call_id
                /\ IsSome(Val(db'[i]).call_transcript) ]_vars

\* C12 amended: a form submission is answered 202 only once its record has
\* been created with status new and its background task queued; a
\* call_analyzed event is answered 202 once its background task is queued,
\* with no write to the table before the answer; the background steps
\* produce no answer, so no acknowledgment depends on their outcome.
C12_AckAfterCheckpoint ==
    [][ /\ (/\ last'.op = "form_webhook"
            /\ Val(last'.response).code = HTTP_ACCEPTED)
           => LET id == Val(last'.inquiry_id)
              IN /\ IsNone(db[id])
                 /\ IsSome(db'[id])
                 /\ Val(db'[id]).status = "new"
                 /\ Queued(tasks, tasks')
                 /\ tasks'[Len(tasks')].kind = "form"
                 /\ tasks'[Len(tasks')].inquiry_id = id
        /\ (/\ last'.op = "retell_webhook"
            /\ last'.event = Some("call_analyzed"))
           => /\ Val(last'.response).code = HTTP_ACCEPTED
              /\ Val(last'.response).status = "accepted"
              /\ db' = db
              /\ Queued(tasks, tasks')
              /\ tasks'[Len(tasks')].kind = "retell"
              /\ tasks'[Len(tasks')].payload.call_id = last'.call_id
        /\ last'.op \in {"_process_form_background", "process_retell_webhook"}
           => IsNone(last'.response) /\ Len(tasks') = Len(tasks) - 1 ]_vars

\* C12 witness: a call_analyzed event for a call that a record carries has
\* been answered 202 while that record holds no call data and the event's
\* task is still pending.
C12_Witness ==
    /\ last.op = "retell_webhook"
    /\ last.event = Some("call_analyzed")
    /\ Val(last.response).code = HTTP_ACCEPTED
    /\ tasks # <<>>
    /\ \E i \in InquiryIds :
         /\ IsSome(db[i])
         /\ Val(db[i]).retell_call_id = last.call_id
         /\ IsNone(Val(db[i]).call_transcript)

\* The last step ran the form flow of a record through the pre-call
\* pipeline and returned: the endpoint's background task, or
\* LeadProcessor.process_form_webhook without an exception.
FormFlowReturned ==
    /\ last.op \in {"_process_form_background", "process_form_webhook"}
    /\ IsSome(last.inquiry_id)
    /\ last.op = "process_form_webhook" => ~last.raised

\* The record the last step worked on.
LastRow == Val(db[Val(last.inquiry_id)])

\* C13: once the pre-call pipeline of a form submission has returned, the
\* record holds research data, a lead score, a category and scoring
\* details, and its status is no longer new, whatever stages degraded.
C13_ResearchPersistedAsStated ==
    FormFlowReturned
    => /\ IsSome(LastRow.company_research)
       /\ IsSome(LastRow.lead_score)
       /\ IsSome(LastRow.lead_category)
       /\ IsSome(LastRow.scoring_details)
       /\ LastRow.status # "new"

\* The agents and collaborators the last step called, in order.
CalledAgents == [k \in 1..Len(last.calls) |-> last.calls[k].agent]

\* C14: when the lead has a phone number the outbound-call trigger is
\* invoked exactly once, after the three pre-call stages; a returned call
\* id gives the record status call_initiated and that retell_call_id, and
\* no call id gives status call_failed and leaves retell_call_id absent.
C14_TriggerOnceAfterPreCall ==
    (FormFlowReturned /\ TruthyStr(LastRow.phone))
    => /\ CalledAgents = <<"research", "scoring", "personalization", "create_call">>
       /\ IsSome(last.trigger)
       /\ IF IsSome(Val(last.trigger).call_id)
          THEN /\ LastRow.status = "call_initiated"
               /\ LastRow.retell_call_id = Val(last.trigger).call_id
          ELSE /\ LastRow.status = "call_failed"
               /\ IsNone(LastRow.retell_call_id)

\* C14 witness: the endpoint's background task has run for a lead with a
\* phone whose research stage degraded, and the call was created.
C14_Witness ==
    /\ last.op = "_process_form_background"
    /\ TruthyStr(LastRow.phone)
    /\ last.outs.research = "raise"
    /\ IsSome(last.trigger)
    /\ IsSome(Val(last.trigger).call_id)
    /\ LastRow.status = "call_initiated"

\* C15: when the lead has no phone number the trigger is never invoked and,
\* once the pre-call pipeline has returned, the record gets the terminal
\* status that marks that no call is possible (a status other than new and
\* researched, which the pipeline itself leaves), in the endpoint's
\* background task as in LeadProcessor.process_form_webhook.
C15_NoPhoneTerminalStatusAsStated ==
    (FormFlowReturned /\ ~TruthyStr(LastRow.phone))
    => /\ IsNone(last.trigger)
       /\ \A k \in 1..Len(last.calls) : last.calls[k].agent # "create_call"
       /\ LastRow.status \notin {"new", "researched"}

\* The submission parses into a lead and create_inquiry returns no id for it.
CreateFails(d, raw_data, db_ok) ==
    LET parsed == parse_form_submission(raw_data) IN
    /\ TruthyStr(RawField(raw_data, "Email"))
    /\ ~parsed.raised
    /\ IsNone(create_inquiry(d, Val(parsed.lead), db_ok).inquiry_id)

\* C16: when create_inquiry returns no id the caller receives an error
\* (HTTP 500 from the endpoint, an exception from
\* LeadProcessor.process_form_webhook) and that submission runs no pre-call
\* stage, invokes no trigger, queues no task and changes no record.
C16_CreateFailureStopsFlow ==
    [][ (/\ last'.op \in {"form_webhook", "process_form_webhook"}
         /\ CreateFails(db, last'.raw_data, last'.db_ok))
        => (/\ db' = db
            /\ tasks' = tasks
            /\ last'.calls = <<>>
            /\ IsNone(last'.inquiry_id)
            /\ last'.op = "form_webhook"
                 => /\ Val(last'.response).code = HTTP_SERVER_ERROR
                    /\ Val(last'.response).status = "Failed to create inquiry"
            /\ last'.op = "process_form_webhook"
                 => last'.raised /\ IsNone(last'.trigger)) ]_vars

\* C16 witness: LeadProcessor.process_form_webhook was called with a
\* complete submission (name, email, phone) while the insert failed, and
\* an exception reached the caller.
C16_Witness ==
    /\ last.op = "process_form_webhook"
    /\ ~last.db_ok
    /\ HasWellFormedEmail(last.raw_data)
    /\ HasCompanyName(last.raw_data)
    /\ IsSome(RawField(last.raw_data, "Phone Number "))
    /\ last.raised

\* C18: every delivery of a call_analyzed event for a call id a record
\* carries runs its own post-call pipeline and follow-up: each processed
\* delivery saves the call data and attempts one follow-up email, so n
\* deliveries give n email attempts.
C18_EachDeliveryRunsPipelineAsStated ==
    (/\ last.op = "process_retell_webhook"
     /\ last.event = Some("call_analyzed")
     /\ ~UnknownCallId(db, last.call_id))
    => /\ Len(EmailCalls(last.calls)) = 1
       /\ \A i \in InquiryIds :
            (IsSome(db[i]) /\ Val(db[i]).retell_call_id = last.call_id)
            => IsSome(Val(db[i]).call_transcript)

\* The value a stage hands on: the output of its reasoning call, or the
\* stage's fallback when the call raised or returned no output.
HandedOn(out, fallback) == IF out.kind = "ok" THEN out.value ELSE fallback

\* C19: one PreCallCrew.run makes its reasoning calls in the order
\* research, scoring, personalization, all three in every run; the scoring
\* call receives the research value, real or fallback, and the
\* personalization call receives the research and scoring values.
C19_StagesInOrder ==
    IsSome(preOut)
    => LET calls == Val(preOut).calls
           lead == Val(preIn).lead
           outs == Val(preIn).outs
           research == HandedOn(outs.research, _get_fallback_research(lead))
           scoring == HandedOn(outs.scoring, _get_fallback_scoring(lead))
       IN /\ [k \in 1..Len(calls) |-> calls[k].agent]
               = <<"research", "scoring", "personalization">>
          /\ calls[1].research = None
          /\ calls[2].research = Some(research)
          /\ calls[3].research = Some(research)
          /\ calls[3].scoring = Some(scoring)

\* C19 witness: a run whose research call raised and whose scoring call
\* returned no output has made its personalization call with the two
\* fallback values.
C19_Witness ==
    /\ IsSome(preOut)
    /\ Val(preIn).outs.research.kind = "raise"
    /\ Val(preIn).outs.scoring.kind = "no_output"
    /\ Len(Val(preOut).calls) = 3
    /\ Val(preOut).calls[3].research = Some(_get_fallback_research(Val(preIn).lead))

\* The collaborators a run called, in order.
CalledOps(calls) == [k \in 1..Len(calls) |-> calls[k].op]

\* C20: one PostCallCrew.run attempts exactly one email template, that of
\* the selected track: the hot track sends neither the warm nor the
\* nurture email; the warm and nurture tracks call nothing but the
\* analysis and their own email, and leave proposal, proposal_pdf_path,
\* meeting_booked and meeting_link at their defaults.
C20_OneTemplatePerTrack ==
    IsSome(postOut)
    => LET out == Val(postOut)
           ops == CalledOps(out.calls)
           sent == { ops[k] : k \in 1..Len(ops) }
       IN /\ Len(EmailCalls(out.calls)) = 1
          /\ out.track = "hot"
               => /\ "send_hot_lead_email" \in sent
                  /\ "send_warm_lead_email" \notin sent
                  /\ "send_nurture_email" \notin sent
          /\ out.track = "warm" => ops = <<"analysis_agent", "send_warm_lead_email">>
          /\ out.track = "nurture" => ops = <<"analysis_agent", "send_nurture_email">>
          /\ out.track \in {"warm", "nurture"}
               => /\ out.result.proposal = NewPostCallResult.proposal
                  /\ out.result.proposal_pdf_path = NewPostCallResult.proposal_pdf_path
                  /\ out.result.meeting_booked = NewPostCallResult.meeting_booked
                  /\ out.result.meeting_link = NewPostCallResult.meeting_link

\* C20 witness: a warm-track run whose call agreed on a meeting at a stated
\* time, with a calendar that would have booked it and a proposal call
\* that would have succeeded.
C20_Witness ==
    /\ IsSome(postOut)
    /\ Val(postOut).track = "warm"
    /\ Val(Val(postOut).result.analysis).meeting_agreed
    /\ IsSome(Val(Val(postOut).result.analysis).proposed_meeting_time)
    /\ Val(postOut).outs.calendar.available
    /\ IsSome(Val(postOut).outs.calendar.link)
    /\ Val(postOut).outs.proposal.kind = "ok"
    /\ Val(postOut).result.email_sent

\* ------------------------------------------------------------------------
\* PostCallCrew.run on what an event payload carries
\* ------------------------------------------------------------------------

\* call_data.get("transcript", ""): None for a null transcript, "" for a
\* missing or empty one.  _get_fallback_analysis takes len(transcript) when
\* the summary is falsy, which raises TypeError for None.
_get_fallback_analysis_raises(transcript, call_summary) ==
    ~TruthyStr(call_summary) /\ IsNone(transcript)

\* PostCallCrew.run with the transcript as the orchestrator passes it.  The
\* fallback is built inside _run_analysis' own handlers, so its exception
\* leaves run(); raised says so (result is then never returned).
PostCallCrew_run_payload(inquiry, transcript, call_summary, outs) ==
    IF /\ outs.analysis.kind # "ok"
       /\ _get_fallback_analysis_raises(transcript, call_summary)
    THEN [raised |-> TRUE, result |-> NewPostCallResult, track |-> "none",
          calls |-> <<Call("analysis_agent", inquiry.email, None, None)>>]
    ELSE PostCallCrew_run(inquiry, OrStr(transcript, ""), call_summary, outs)

RECURSIVE Repeat(_, _)
Repeat(str, n) == IF n = 0 THEN "" ELSE str \o Repeat(str, n - 1)

\* A summary longer than the 500 characters the fallback keeps.
LongSummary == Repeat("0123456789", 60)

\* Transcripts and summaries an event may carry: null, empty or missing,
\* and present.
PayloadTranscripts == {None, Some(""), Some("Agent: hello. User: hi.")}
PayloadSummaries == {None, Some(""), Some("Good call"), Some(LongSummary)}

\* Runs whose analysis call degrades, and one whose call succeeds.
PayloadAnalyses ==
    { NoOutput(NoValue), Raise(NoValue),
      Ok(CallAnalysis("Discussed support automation", 85, TRUE,
                      Some("Tuesday 2pm"), 90)) }

PayloadInputs ==
    { Some([inquiry |-> q, transcript |-> t, call_summary |-> cs,
            analysis |-> a]) :
        q \in PostCallInquiries, t \in PayloadTranscripts,
        cs \in PayloadSummaries, a \in PayloadAnalyses }

PayloadInit ==
    /\ settings \in ThresholdPairs
    /\ phoneIn = None
    /\ phoneOut = None
    /\ rawIn = <<>>
    /\ parseOut = None
    /\ preIn = None
    /\ preOut = None
    /\ postIn \in PayloadInputs
    /\ postOut = None
    /\ db = EmptyDb
    /\ tasks = <<>>
    /\ last = NoOp

\* A call of PostCallCrew.run with the values read from an event.
PostCallCrewRunPayload ==
    /\ IsSome(postIn)
    /\ postOut = None
    /\ \E o \in CollaboratorOutcomes(Val(postIn).analysis) :
         /\ o.proposal.kind \in {"ok", "raise"}
         /\ o.proposal.kind = "ok" => IsSome(o.pdf)
         /\ ~o.calendar.raises
         /\ postOut' = Some([outs |-> o] @@
                PostCallCrew_run_payload(Val(postIn).inquiry,
                    Val(postIn).transcript, Val(postIn).call_summary, o))
    /\ UNCHANGED <<settings, phoneIn, phoneOut, rawIn, parseOut, preIn, preOut,
                   postIn, db, tasks, last>>

PayloadNext == PostCallCrewRunPayload

SpecPayload == PayloadInit /\ [][PayloadNext]_vars

\* C21: when the analysis call raises or returns no output, PostCallCrew.run
\* returns success true with the fallback analysis (neutral, interest 50,
\* no meeting, updated score 50, summary of at most 500 characters), its
\* first error names the analysis, and exactly one track runs, for every
\* transcript and summary an event may carry.
C21_FallbackAnalysisAsStated ==
    (IsSome(postOut) /\ Val(postIn).analysis.kind # "ok")
    => LET out == Val(postOut) IN
       /\ ~out.raised
       /\ out.result.success
       /\ IsSome(out.result.analysis)
       /\ Val(out.result.analysis).sentiment = "neutral"
       /\ Val(out.result.analysis).interest_level = FALLBACK_INTEREST
       /\ Val(out.result.analysis).meeting_agreed = FALSE
       /\ Val(out.result.analysis).updated_lead_score = FALLBACK_INTEREST
       /\ Len(Val(out.result.analysis).call_summary) <= SUMMARY_LIMIT
       /\ Len(out.result.errors) >= 1
       /\ out.result.errors[1] \in {"Analysis returned no output",
                                    "Analysis failed: "
                                      \o Val(postIn).analysis.message}
       /\ out.track \in {"hot", "warm", "nurture"}
       /\ Len(EmailCalls(out.calls)) = 1

\* The run's result carries this error string.
HasError(result, msg) == \E i \in 1..Len(result.errors) : result.errors[i] = msg

\* The calendar error a failed booking attempt leaves.
CalendarErrors ==
    {"Meeting booking failed: boom", "Calendar service not configured",
     "No available meeting slots", "Failed to create calendar event"}

\* C22: on the hot track, when the proposal call raises or returns no
\* output, the result has no proposal and no proposal_pdf_path and names
\* the proposal failure in errors, the PDF renderer is not called, the
\* agreed meeting is booked exactly when the calendar creates the event
\* (a calendar error is recorded otherwise), and the hot-lead email is
\* sent once with no attachment.
C22_NoSubstituteProposal ==
    (IsSome(postOut) /\ Val(postOut).track = "hot"
       /\ Val(postOut).outs.proposal.kind # "ok")
    => LET out == Val(postOut)
           analysis == Val(out.result.analysis)
           agreed == analysis.meeting_agreed
                       /\ IsSome(analysis.proposed_meeting_time)
       IN /\ out.result.proposal = None
          /\ out.result.proposal_pdf_path = None
          /\ \/ HasError(out.result, "Proposal generation returned no output")
             \/ HasError(out.result, "Proposal failed: "
                                       \o out.outs.proposal.message)
          /\ \A i \in 1..Len(out.calls) : out.calls[i].op # "markdown_to_pdf"
          /\ agreed => /\ out.result.meeting_booked
                            = CalendarBooks(analysis, out.outs.calendar)
                       /\ ~out.result.meeting_booked
                            => \E e \in CalendarErrors : HasError(out.result, e)
          /\ Len(EmailCalls(out.calls)) = 1
          /\ EmailCalls(out.calls)[1].op = "send_hot_lead_email"
          /\ EmailCalls(out.calls)[1].proposal_path = None
          /\ EmailCalls(out.calls)[1].meeting_link = out.result.meeting_link
          /\ out.result.email_sent = out.outs.email
          /\ out.result.success

\* C22 witness: a hot-track run whose proposal call raised booked the
\* agreed meeting and sent the hot-lead email with the meeting link.
C22_Witness ==
    /\ IsSome(postOut)
    /\ Val(postOut).track = "hot"
    /\ Val(postOut).outs.proposal.kind = "raise"
    /\ Val(postOut).result.meeting_booked
    /\ Val(postOut).result.email_sent
    /\ Val(postOut).result.proposal = None

\* The run went into _book_meeting: it either reached create_meeting or
\* left one of the calendar errors.
BookingAttempted(out) ==
    \/ \E i \in 1..Len(out.calls) : out.calls[i].op = "create_meeting"
    \/ \E e \in CalendarErrors : HasError(out.result, e)

\* C23: on the hot track a booking is attempted exactly when the analysis
\* has meeting_agreed and a proposed_meeting_time; a time that does not
\* parse is replaced by the next available slot, so the event is created
\* whenever a slot exists; with no slot, an unavailable calendar or a
\* failed event creation an error is recorded, meeting_booked is false and
\* meeting_link absent; the hot-lead email is sent in every case.
C23_BookingOnAgreedMeeting ==
    (IsSome(postOut) /\ Val(postOut).track = "hot")
    => LET out == Val(postOut)
           analysis == Val(out.result.analysis)
           cal == out.outs.calendar
           agreed == analysis.meeting_agreed
                       /\ IsSome(analysis.proposed_meeting_time)
           noSlot == IsNone(cal.parsed) /\ IsNone(cal.slot)
       IN /\ BookingAttempted(out) <=> agreed
          /\ (agreed /\ ~cal.raises /\ cal.available /\ IsNone(cal.parsed)
                /\ IsSome(cal.slot))
             => /\ \E i \in 1..Len(out.calls) : out.calls[i].op = "create_meeting"
                /\ out.result.meeting_booked = IsSome(cal.link)
          /\ (agreed /\ ~cal.raises /\ cal.available /\ noSlot)
             => HasError(out.result, "No available meeting slots")
          /\ (agreed /\ ~cal.raises /\ ~cal.available)
             => HasError(out.result, "Calendar service not configured")
          /\ (agreed /\ ~cal.raises /\ cal.available /\ ~noSlot /\ IsNone(cal.link))
             => HasError(out.result, "Failed to create calendar event")
          /\ (agreed /\ (cal.raises \/ ~cal.available \/ noSlot \/ IsNone(cal.link)))
             => /\ ~out.result.meeting_booked
                /\ out.result.meeting_link = None
                /\ \E e \in CalendarErrors : HasError(out.result, e)
          /\ Len(EmailCalls(out.calls)) = 1
          /\ EmailCalls(out.calls)[1].op = "send_hot_lead_email"
          /\ out.result.email_sent = out.outs.email

\* C23 witness: a hot-track run with an agreed meeting whose proposed time
\* did not parse booked the meeting in the next available slot.
C23_Witness ==
    /\ IsSome(postOut)
    /\ Val(postOut).track = "hot"
    /\ Val(Val(postOut).result.analysis).meeting_agreed
    /\ IsSome(Val(Val(postOut).result.analysis).proposed_meeting_time)
    /\ IsNone(Val(postOut).outs.calendar.parsed)
    /\ IsSome(Val(postOut).outs.calendar.slot)
    /\ Val(postOut).result.meeting_booked

\* The error string a track leaves when its email send fails.
EmailFailure(track) ==
    IF track = "hot" THEN "Failed to send hot lead email"
    ELSE IF track = "warm" THEN "Failed to send warm lead email"
    ELSE "Failed to send nurture email"

\* C24: a run attempts the follow-up email at most once; when the send
\* fails, email_sent is false, success is true, the track's failure string
\* is the one error appended, and the track, the collaborator calls and
\* every other result field equal those of the same run with a successful
\* send.
C24_EmailFailureChangesOnlyEmail ==
    IsSome(postOut)
    => LET out == Val(postOut)
           sent == PostCallCrew_run(Val(postIn).inquiry, Val(postIn).transcript,
                                    Val(postIn).call_summary,
                                    [out.outs EXCEPT !.email = TRUE])
       IN /\ Len(EmailCalls(out.calls)) <= 1
          /\ ~out.outs.email
             => /\ ~out.result.email_sent
                /\ out.result.success
                /\ sent.result.email_sent
                /\ out.track = sent.track
                /\ out.calls = sent.calls
                /\ out.result.errors
                     = Append(sent.result.errors, EmailFailure(out.track))
                /\ [out.result EXCEPT !.email_sent = TRUE,
                                      !.errors = sent.result.errors]
                     = sent.result

\* C24 witness: a nurture-track run whose send failed returned success
\* with email_sent false and the send failure as its only error.
C24_Witness ==
    /\ IsSome(postOut)
    /\ Val(postOut).track = "nurture"
    /\ ~Val(postOut).outs.email
    /\ ~Val(postOut).result.email_sent
    /\ Val(postOut).result.success
    /\ Val(postOut).result.errors = <<"Failed to send nurture email">>

\* The calls of one operation to the analysis reasoning call.
AnalysisCalls(calls) == SelectSeq(calls, LAMBDA c : c.op = "analysis_agent")

\* C25: when a call_analyzed event is processed whose call id the form
\* flow stored on a record, the record is found: its transcript is saved,
\* its status has gone through call_completed (it is call_completed or a
\* status the pipeline sets after it), and the post-call pipeline ran
\* exactly once for the event.
C25_CallDataPersistedAsStated ==
    (/\ last.op = "process_retell_webhook"
     /\ last.event = Some("call_analyzed")
     /\ ~UnknownCallId(db, last.call_id))
    => /\ Len(AnalysisCalls(last.calls)) = 1
       /\ \A i \in InquiryIds :
            (IsSome(db[i]) /\ Val(db[i]).retell_call_id = last.call_id)
            => /\ Val(db[i]).call_transcript = Some("Agent: hello. User: hi.")
               /\ Val(db[i]).status \in
                    {"call_completed", "analyzed", "hot_processed",
                     "warm_processed", "nurture_processed"}

\* C28: every status a DatabaseService write has put on a row is a member
\* of LeadStatus, so every row of the table is returned by get_inquiry.
C28_WrittenStatusesParseAsStated ==
    \A i \in InquiryIds :
        IsSome(db[i]) => /\ Val(db[i]).status \in LeadStatus
                         /\ IsSome(get_inquiry(db, i))

\* ------------------------------------------------------------------------
\* The call-completion run on a record the lookup found
\* ------------------------------------------------------------------------

\* PostCallResult(success=False, errors=[str(e)])
FailedPostCallResult(message) ==
    [NewPostCallResult EXCEPT !.success = FALSE, !.errors = <<message>>]

\* LeadProcessor._run_post_call_pipeline: builds the crew and runs it; any
\* exception (from PostCallCrew() or from run) gives a failed result.
_run_post_call_pipeline(inquiry, transcript, call_summary, outs) ==
    IF ~outs.crew_ok
    THEN [raised |-> TRUE, result |-> FailedPostCallResult("crew setup failed"),
          track |-> "none", calls |-> <<>>]
    ELSE LET run == PostCallCrew_run_payload(inquiry, transcript,
                                             call_summary, outs)
         IN IF run.raised
            THEN [raised |-> TRUE,
                  result |-> FailedPostCallResult("object of type 'NoneType' has no len()"),
                  track |-> "none", calls |-> run.calls]
            ELSE run

\* update_call_completed with the transcript as read from the event.
update_call_completed_payload(d, inquiry_id, transcript) ==
    IF IsNone(transcript)
    THEN update_inquiry(d, inquiry_id,
             [call_transcript |-> None, status |-> "call_completed"])
    ELSE update_call_completed(d, inquiry_id, Val(transcript))

\* LeadProcessor.process_retell_webhook from step 2 on, for the record
\* step 1 found: save the call data, run the pipeline, write its results.
process_call_analyzed(d, inquiry, transcript, call_summary, outs) ==
    LET d1 == update_call_completed_payload(d, inquiry.id, transcript)
        run == _run_post_call_pipeline(inquiry, transcript, call_summary, outs)
    IN [db |-> _update_post_call_results(d1, inquiry.id, run.result),
        run |-> run]

\* The row the lookup found: a submission whose call was placed, with a
\* status that validates as a LeadStatus.
FoundRow ==
    [id |-> IdOf(1), company_name |-> "Acme", email |-> "a@acme.com",
     phone |-> Some("+14155551234"), status |-> "call_in_progress",
     company_research |-> None, lead_score |-> Some(85),
     lead_category |-> Some("hot"), scoring_details |-> None,
     retell_call_id |-> Some("call_a"), call_transcript |-> None,
     call_analysis |-> None, proposal_url |-> None, meeting_booked |-> FALSE,
     meeting_link |-> None, followup_sent |-> FALSE]

\* Interest levels on both sides of every configured threshold.
CompletedInterestLevels == {0, 29, 30, 39, 40, 49, 50, 59, 60, 69, 70, 79, 80, 100}

CompletedAnalyses ==
    { Ok(CallAnalysis("Discussed support automation", i, m.agreed, m.time, 90)) :
        i \in CompletedInterestLevels, m \in MeetingOpts }
    \cup { NoOutput(NoValue), Raise(NoValue) }

CompletedInputs ==
    { Some([inquiry |-> FoundRow, transcript |-> t, call_summary |-> cs,
            analysis |-> a]) :
        t \in {None, Some("Agent: hello. User: hi.")},
        cs \in {None, Some("Good call")}, a \in CompletedAnalyses }

CompletedInit ==
    /\ settings \in ThresholdPairs
    /\ phoneIn = None
    /\ phoneOut = None
    /\ rawIn = <<>>
    /\ parseOut = None
    /\ preIn = None
    /\ preOut = None
    /\ postIn \in CompletedInputs
    /\ postOut = None
    /\ db = [EmptyDb EXCEPT ![IdOf(1)] = Some(FoundRow)]
    /\ tasks = <<>>
    /\ last = NoOp

\* Steps 2 to 4 of process_retell_webhook run for the found record.
ProcessCallAnalyzed ==
    /\ IsSome(postIn)
    /\ postOut = None
    /\ \E o \in CollaboratorOutcomes(Val(postIn).analysis), crew_ok \in BOOLEAN :
         \E r \in { process_call_analyzed(db, Val(postIn).inquiry,
                        Val(postIn).transcript, Val(postIn).call_summary,
                        [crew_ok |-> crew_ok] @@ o) } :
            /\ db' = r.db
            /\ postOut' = Some([outs |-> [crew_ok |-> crew_ok] @@ o] @@ r.run)
    /\ UNCHANGED <<settings, phoneIn, phoneOut, rawIn, parseOut, preIn, preOut,
                   postIn, tasks, last>>

CompletedNext == ProcessCallAnalyzed

SpecCallCompleted == CompletedInit /\ [][CompletedNext]_vars

\* The found record's row after the run.
CompletedRow == Val(db[IdOf(1)])

ProcessedStatuses == {"hot_processed", "warm_processed", "nurture_processed"}

\* C26: after the pipeline returned, the record is hot_processed (with the
\* proposal reference, the meeting flag and the meeting link) when the
\* result has a proposal document or a booked meeting; otherwise, when the
\* email was sent, warm_processed for an interest_level at or above
\* WARM_THRESHOLD and nurture_processed below it; in every other case no
\* processed status is written.
C26_ProcessedStatusByResult ==
    IsSome(postOut)
    => LET r == Val(postOut).result
           hot == TruthyStr(r.proposal_pdf_path) \/ r.meeting_booked
       IN /\ hot => /\ CompletedRow.status = "hot_processed"
                    /\ CompletedRow.proposal_url
                         = Some(OrStr(r.proposal_pdf_path, ""))
                    /\ CompletedRow.meeting_booked = r.meeting_booked
                    /\ CompletedRow.meeting_link = r.meeting_link
          /\ (~hot /\ r.email_sent)
             => /\ IsSome(r.analysis)
                /\ CompletedRow.status =
                     (IF Val(r.analysis).interest_level >= settings.WARM_THRESHOLD
                      THEN "warm_processed" ELSE "nurture_processed")
          /\ (~hot /\ ~r.email_sent) => CompletedRow.status \notin ProcessedStatuses

\* C26 witness: a run with a sent email, no proposal document and no
\* booked meeting, at interest_level exactly WARM_THRESHOLD, left the
\* record warm_processed.
C26_Witness ==
    /\ IsSome(postOut)
    /\ Val(postOut).result.email_sent
    /\ ~Val(postOut).result.meeting_booked
    /\ IsNone(Val(postOut).result.proposal_pdf_path)
    /\ Val(Val(postOut).result.analysis).interest_level = settings.WARM_THRESHOLD
    /\ CompletedRow.status = "warm_processed"

ProcessedStatus(track) ==
    IF track = "hot" THEN "hot_processed"
    ELSE IF track = "warm" THEN "warm_processed"
    ELSE "nurture_processed"

====
